---- MODULE Spec2Model ----
\* Sandbox orchestration engine of code-sandbox-mcp: the tool handlers
\* (sandbox_initialize, sandbox_list, sandbox_exec, sandbox_stop, run_code,
\* run_project, the logs resource) driving a container engine.
\* One tool call is in flight at a time; the engine's containers, the ticker,
\* the waiter goroutine and the request context move concurrently with it.
EXTENDS Integers, Sequences, FiniteSets, TLC

\* ---------------------------------------------------------------- bounds
MaxContainers == 1   \* containers the engine can create in one behaviour
MaxOut == 1          \* output chunks one container can write
MaxCmds == 2         \* commands in one sandbox_exec call
MaxTicks == 12       \* ticker deliveries handled in one run_code wait

CIds == 1..MaxContainers
NoC == 0

\* ------------------------------------------------------- strings of the API
\* Container ids and names are strings; a value records what kind of string
\* it is (k), its text (s), the container it belongs to (n) and whether it
\* carries the engine's leading "/" (slash).
NoStr == [k |-> "none", s |-> "", n |-> 0, slash |-> FALSE]
UserName(s) == [k |-> "name", s |-> s, n |-> 0, slash |-> FALSE]
AutoName(c) == [k |-> "auto", s |-> "", n |-> c, slash |-> FALSE]
FullId(c) == [k |-> "id", s |-> "full", n |-> c, slash |-> FALSE]

GivenNames == {"sb"}
Images == {"alpine:latest"}

\* c.ID[:12]
ShortIdKeepsAll(id) == id
ShortId(id) == [id EXCEPT !.s = "short"]

\* strings.TrimPrefix(c.Names[0], "/")
TrimPrefixNoop(str) == str
TrimPrefix(str) == [str EXCEPT !.slash = FALSE]

\* the engine reports a container's names with a leading "/"
EngineListedName(name) == [name EXCEPT !.slash = TRUE]

VARIABLES
    containers,  \* engine: container -> [st, name, image, tty, out]
    kind,        \* the tool call in flight, or the last one that returned
    pc,          \* its position; "idle" before the first call, "done" once returned
    args,        \* its arguments
    cid,         \* the container it created (NoC: none)
    ops,         \* the engine operations it issued, in order
    result,      \* what it returned
    idx,         \* sandbox_exec: index of the command being run
    builder,     \* sandbox_exec: outputBuilder
    started,     \* sandbox_exec: commands the engine started, in order
    exits,       \* sandbox_exec: exit codes of the commands that finished
    progress,    \* run_code: the progress counter of the wait loop
    sent,        \* progress values handed to SendNotificationToClient, in order
    tickerOn,    \* run_code: the ticker is running
    tickerC,     \* run_code: ticks buffered in ticker.C (capacity 1)
    gpc,         \* run_code: position of the ContainerWait goroutine
    waitDone,    \* run_code: waitDone is closed
    waitErr,     \* run_code: waitErr is non-nil
    ctxDone,     \* the request context is cancelled
    inited,      \* history: container -> what sandbox_initialize was given and returned
    stopped,     \* history: containers an engine stop of a sandbox_stop acted on
    stopOK,      \* history: containers a successful sandbox_stop removed
    cancelInWait, \* history: the context was cancelled during run_code's wait
    comp,        \* command composition: the request being composed and run
    xfer,        \* file transfer: the copy request, both file systems
    scan,        \* dependency detection: the source text scanned and what was found
    registry,    \* the language registries: cells of their slices stored into
                 \* since start-up, as [owner, index, word]
    put,         \* copy_file: the request, the mkdir exec and the container's files
    poll,        \* an exec polling loop: the exec'd command and the loop's position
    pair         \* two copy_project calls at once into one container

vars == <<containers, kind, pc, args, cid, ops, result, idx, builder, started,
          exits, progress, sent, tickerOn, tickerC, gpc, waitDone, waitErr,
          ctxDone, inited, stopped, stopOK, cancelInWait, comp, xfer, scan,
          registry, put, poll, pair>>

callVars == <<kind, pc, args, cid, ops, result>>
execVars == <<idx, builder, started, exits>>
waitVars == <<progress, tickerOn, tickerC, gpc, waitDone, waitErr>>
histVars == <<inited, stopped, stopOK, cancelInWait>>

\* the composer and the file transfer are at rest
NoComp == [phase |-> "idle"]
NoXfer == [phase |-> "idle"]
NoScan == [phase |-> "idle"]
NoPut == [phase |-> "idle"]
NoPoll == [phase |-> "idle"]
NoPair == [phase |-> "idle"]

\* ---------------------------------------------------------------- engine
NoContainer == [st |-> "none", name |-> NoStr, image |-> "", tty |-> FALSE, out |-> 0]

Exists(c) == containers[c].st \in {"created", "running", "exited"}

\* the container a "container id or name" string resolves to
Resolve(target) ==
    {c \in CIds : Exists(c) /\ (FullId(c) = target \/ containers[c].name = target)}

FreeIds == {c \in CIds : containers[c].st = "none"}
NextId == CHOOSE c \in FreeIds : \A d \in FreeIds : c <= d

NameInUse(name) == \E c \in CIds : Exists(c) /\ containers[c].name = name

\* every engine request carries the call's context: it fails once that is cancelled
EngineUp(ok) == ok /\ ~ctxDone

\* ContainerList(ListOptions{All: all}): the zero value lists running containers
EngineList(all) ==
    {c \in CIds : containers[c].st = "running"
                  \/ (all /\ containers[c].st \in {"created", "exited"})}

StatusText(st) ==
    CASE st = "running" -> "Up"
      [] st = "exited" -> "Exited"
      [] OTHER -> "Created"

\* ContainerLogs refuses a request that selects neither stdout nor stderr
LogsAccepted(opts) == opts.stdout \/ opts.stderr

NoResult == [status |-> "none", id |-> NoStr, msg |-> "", out |-> 0,
             list |-> {}, transcript |-> <<>>]
\* mcp.NewToolResultText / NewToolResultResource, mcp.NewToolResultError
Ok(msg) == [NoResult EXCEPT !.status = "ok", !.msg = msg]
ToolError(msg) == [NoResult EXCEPT !.status = "error", !.msg = msg]
ReportedAsSuccess(msg) == Ok(msg)
\* mcp.NewToolResultText("Error: ..."): the error is text, IsError stays unset
ErrorText(msg) == [NoResult EXCEPT !.status = "error_text", !.msg = msg]
\* a Go error returned by the handler itself
Fault(msg) == [NoResult EXCEPT !.status = "fault", !.msg = msg]
\* request.Params.Meta.ProgressToken with a nil Meta: the handler panics
NilMeta == [NoResult EXCEPT !.status = "panic", !.msg = "nil pointer dereference"]

NotInited == [ok |-> FALSE, name |-> "", image |-> "", id |-> NoStr]

\* meta: the request carries Params.Meta, which holds the progress token
NoArgs == [image |-> "", name |-> "", target |-> NoStr, bg |-> FALSE, n |-> 0,
           meta |-> TRUE]

Targets == {UserName(s) : s \in GivenNames} \cup {FullId(c) : c \in CIds}

\* ------------------------------------------------------ language registry
\* A command-line word: its text and, for a file name, its extension.
Tok(s) == [base |-> s, ext |-> ""]
File(b, e) == [base |-> b, ext |-> e]

\* filepath.Ext
Ext(word) == word.ext

Languages == {"python", "go", "nodejs"}
\* an identifier outside the registered set
OtherLanguages == {"ruby"}

\* the zero value of LanguageConfig, which a map lookup of an absent key returns
ZeroConfig == [Image |-> "", DependencyFiles |-> <<>>, RunCommand |-> <<>>]

\* languages.SupportedLanguages
SupportedLanguages(lang) ==
    CASE lang = "python" ->
           [Image |-> "python:3.12-slim-bookworm",
            DependencyFiles |-> <<"requirements.txt", "pyproject.toml", "setup.py">>,
            RunCommand |-> <<Tok("python3"), Tok("-c")>>]
      [] lang = "go" ->
           [Image |-> "golang:1.21-alpine",
            DependencyFiles |-> <<"go.mod">>,
            RunCommand |-> <<Tok("go"), Tok("run"), File("main", ".go")>>]
      [] lang = "nodejs" ->
           [Image |-> "oven/bun:debian",
            DependencyFiles |-> <<"package.json">>,
            RunCommand |-> <<Tok("bun"), Tok("run"), File("main", ".ts")>>]
      [] OTHER -> ZeroConfig

\* supportedLanguages of docker-sandbox-mcp
supportedLanguages(lang) ==
    CASE lang = "python" ->
           [Image |-> "python:3.12-slim-bookworm",
            DependencyFiles |-> <<"requirements.txt", "pyproject.toml", "setup.py">>,
            RunCommand |-> <<>>]
      [] lang = "go" ->
           [Image |-> "golang:1.21-alpine",
            DependencyFiles |-> <<"go.mod">>, RunCommand |-> <<>>]
      [] lang = "nodejs" ->
           [Image |-> "node:23-slim",
            DependencyFiles |-> <<"package.json">>, RunCommand |-> <<>>]
      [] OTHER -> ZeroConfig

TypedFlags == <<Tok("node"), Tok("--experimental-strip-types"),
                Tok("--experimental-transform-types")>>
PlainNode == <<Tok("node")>>

\* FileExtensions of the NodeJS entry of supportedLanguages
RegisteredExts == {".js", ".ts", ".tsx", ".jsx"}
FileExtensions(ext) == IF ext \in {".ts", ".tsx"} THEN TypedFlags ELSE PlainNode

\* A slice: its backing array, whose length is the capacity, and its length.
\* A composite literal has the capacity of its length.
LiteralWithSpare(words) == [array |-> Append(words, Tok("")), len |-> Len(words)]
Literal(words) == [array |-> words, len |-> Len(words)]

\* the elements of a slice
SliceValue(s) == SubSeq(s.array, 1, s.len)

\* append(s, xs...): what it returns
AppendValue(s, xs) == SliceValue(s) \o xs
\* append(s, xs...): the cells of the backing array of s the call stores
\* into; the elements go there when the capacity suffices, and to a new
\* array otherwise
AppendStores(s, xs) ==
    IF s.len + Len(xs) <= Len(s.array)
    THEN {[index |-> s.len + k, word |-> xs[k]] : k \in 1..Len(xs)}
    ELSE {}

\* the memory of both registries when the package variables are initialised
StartUp ==
    [SupportedLanguages |->
        [lang \in Languages |->
            [Image |-> SupportedLanguages(lang).Image,
             DependencyFiles |-> Literal(SupportedLanguages(lang).DependencyFiles),
             RunCommand |-> Literal(SupportedLanguages(lang).RunCommand)]],
     supportedLanguages |->
        [lang \in Languages |->
            [Image |-> supportedLanguages(lang).Image,
             DependencyFiles |-> Literal(supportedLanguages(lang).DependencyFiles)]],
     FileExtensions |-> [ext \in RegisteredExts |-> Literal(FileExtensions(ext))]]

\* a slice of the registry with the cells stored since start-up; `stores`
\* holds at most one store for a cell, the last one
Overlaid(owner, s, stores) ==
    [s EXCEPT !.array =
        [i \in 1..Len(s.array) |->
            IF \E st \in stores : st.owner = owner /\ st.index = i
            THEN (CHOOSE st \in stores : st.owner = owner /\ st.index = i).word
            ELSE s.array[i]]]

\* `stores` after the cells of `owner` in `cells` were stored into
StoreInto(stores, owner, cells) ==
    {st \in stores : ~\E c \in cells : st.owner = owner /\ st.index = c.index}
      \cup {[owner |-> owner, index |-> c.index, word |-> c.word] : c \in cells}

Init ==
    /\ containers = [c \in CIds |-> NoContainer]
    /\ kind = "none" /\ pc = "idle" /\ args = NoArgs /\ cid = NoC
    /\ ops = <<>> /\ result = NoResult
    /\ idx = 0 /\ builder = <<>> /\ started = <<>> /\ exits = <<>>
    /\ progress = 0 /\ sent = <<>> /\ tickerOn = FALSE /\ tickerC = 0
    /\ gpc = "none" /\ waitDone = FALSE /\ waitErr = FALSE /\ ctxDone = FALSE
    /\ inited = [c \in CIds |-> NotInited]
    /\ stopped = {} /\ stopOK = {}
    /\ cancelInWait = FALSE
    /\ comp = NoComp /\ xfer = NoXfer /\ scan = NoScan
    /\ registry = {}
    /\ put = NoPut /\ poll = NoPoll /\ pair = NoPair

\* A new call starts once the previous one has returned and its goroutine ended.
CanBegin == pc \in {"idle", "done"} /\ gpc \in {"none", "done"}

Begin(k, first, a) ==
    /\ CanBegin
    /\ kind' = k /\ pc' = first /\ args' = a
    /\ cid' = NoC /\ ops' = <<>> /\ result' = NoResult
    /\ idx' = 0 /\ builder' = <<>> /\ started' = <<>> /\ exits' = <<>>
    /\ progress' = 0 /\ sent' = <<>> /\ tickerOn' = FALSE /\ tickerC' = 0
    /\ gpc' = "none" /\ waitDone' = FALSE /\ waitErr' = FALSE /\ ctxDone' = FALSE
    /\ cancelInWait' = FALSE
    /\ UNCHANGED <<containers, inited, stopped, stopOK>>
    /\ UNCHANGED <<comp, xfer, scan, registry, put, poll, pair>>

Return(r) == pc' = "done" /\ result' = r

\* the call issues the engine operation `op`, which succeeds or fails
Issue(op, ok) == ops' = Append(ops, [op |-> op, ok |-> ok])

\* ------------------------------------------------ sandbox_initialize
BeginInitialize ==
    \E image \in Images, name \in GivenNames \cup {""} :
        Begin("sandbox_initialize", "pull",
              [NoArgs EXCEPT !.image = image, !.name = name])

\* createContainer: cli.ImagePull
InitPull ==
    /\ kind = "sandbox_initialize" /\ pc = "pull"
    /\ \E ok \in BOOLEAN :
        /\ Issue("pull", EngineUp(ok))
        /\ IF EngineUp(ok)
           THEN pc' = "create" /\ UNCHANGED result
           ELSE Return(ErrorText("failed to pull Docker image"))
    /\ UNCHANGED <<containers, kind, args, cid, sent, ctxDone>>
    /\ UNCHANGED <<execVars, waitVars, histVars>>
    /\ UNCHANGED <<comp, xfer, scan, registry, put, poll, pair>>

\* the container created by ContainerCreate(config, hostConfig, name)
Created(c, image, name, tty) ==
    [st |-> "created",
     name |-> IF name = "" THEN AutoName(c) ELSE UserName(name),
     image |-> image, tty |-> tty, out |-> 0]

CreateAccepted(ok, name) ==
    EngineUp(ok) /\ FreeIds # {} /\ (name = "" \/ ~NameInUse(UserName(name)))

\* createContainer: cli.ContainerCreate with Tty and OpenStdin
InitCreate ==
    /\ kind = "sandbox_initialize" /\ pc = "create"
    /\ \E ok \in BOOLEAN :
        /\ Issue("create", CreateAccepted(ok, args.name))
        /\ IF CreateAccepted(ok, args.name)
           THEN /\ containers' = [containers EXCEPT
                      ![NextId] = Created(NextId, args.image, args.name, TRUE)]
                /\ cid' = NextId
                /\ pc' = "start" /\ UNCHANGED result
           ELSE /\ Return(ErrorText("failed to create container"))
                /\ UNCHANGED <<containers, cid>>
    /\ UNCHANGED <<kind, args, sent, ctxDone>>
    /\ UNCHANGED <<execVars, waitVars, histVars>>
    /\ UNCHANGED <<comp, xfer, scan, registry, put, poll, pair>>

\* what createContainer returns once ContainerStart succeeded
InitializedNoId(c) == Ok("container_id")
Initialized(c) == [Ok("container_id") EXCEPT !.id = FullId(c)]

\* what createContainer returns when ContainerStart failed
StartFailedWithId(c) == [ErrorText("failed to start container") EXCEPT !.id = FullId(c)]
StartFailed(c) == ErrorText("failed to start container")

\* createContainer: cli.ContainerStart, then return resp.ID
InitStart ==
    /\ kind = "sandbox_initialize" /\ pc = "start"
    /\ \E ok \in BOOLEAN :
        /\ Issue("start", EngineUp(ok) /\ containers[cid].st = "created")
        /\ IF EngineUp(ok) /\ containers[cid].st = "created"
           THEN /\ containers' = [containers EXCEPT ![cid].st = "running"]
                /\ Return(Initialized(cid))
                /\ inited' = [inited EXCEPT ![cid] =
                       [ok |-> TRUE, name |-> args.name, image |-> args.image,
                        id |-> Initialized(cid).id]]
           ELSE /\ Return(StartFailed(cid))
                /\ UNCHANGED <<containers, inited>>
    /\ UNCHANGED <<kind, args, cid, sent, ctxDone>>
    /\ UNCHANGED <<execVars, waitVars>>
    /\ UNCHANGED <<stopped, stopOK, cancelInWait>>
    /\ UNCHANGED <<comp, xfer, scan, registry, put, poll, pair>>

\* ------------------------------------------------------- sandbox_list
BeginList == Begin("sandbox_list", "list", NoArgs)

ListAllOption == TRUE
ListOption == FALSE

SandboxInfo(c) ==
    [id |-> ShortId(FullId(c)),
     name |-> TrimPrefix(EngineListedName(containers[c].name)),
     image |-> containers[c].image,
     status |-> StatusText(containers[c].st)]

\* ListSandboxes: cli.ContainerList, one SandboxInfo per container
ListSandboxes ==
    /\ kind = "sandbox_list" /\ pc = "list"
    /\ \E ok \in BOOLEAN :
        /\ Issue("list", EngineUp(ok))
        /\ IF EngineUp(ok)
           THEN Return([Ok("list") EXCEPT
                    !.list = {SandboxInfo(c) : c \in EngineList(ListOption)}])
           ELSE Return(Fault("CONTAINER_LIST_ERROR"))
    /\ UNCHANGED <<containers, kind, args, cid, sent, ctxDone>>
    /\ UNCHANGED <<execVars, waitVars, histVars>>
    /\ UNCHANGED <<comp, xfer, scan, registry, put, poll, pair>>

\* ------------------------------------------------------- sandbox_stop
BeginStop ==
    \E t \in Targets :
        Begin("sandbox_stop", "stop", [NoArgs EXCEPT !.target = t])

\* stopAndRemoveContainer: cli.ContainerStop with a 10 second timeout
StopStop ==
    /\ kind = "sandbox_stop" /\ pc = "stop"
    /\ \E ok \in BOOLEAN :
        /\ Issue("stop", EngineUp(ok) /\ Resolve(args.target) # {})
        /\ IF EngineUp(ok) /\ Resolve(args.target) # {}
           THEN /\ \E c \in Resolve(args.target) :
                     /\ containers' = [containers EXCEPT
                           ![c].st = IF @ = "running" THEN "exited" ELSE @]
                     /\ stopped' = stopped \cup {c}
                /\ pc' = "remove" /\ UNCHANGED result
           ELSE /\ Return(ErrorText("failed to stop container"))
                /\ UNCHANGED <<containers, stopped>>
    /\ UNCHANGED <<kind, args, cid, sent, ctxDone>>
    /\ UNCHANGED <<execVars, waitVars>>
    /\ UNCHANGED <<inited, stopOK, cancelInWait>>
    /\ UNCHANGED <<comp, xfer, scan, registry, put, poll, pair>>

\* stopAndRemoveContainer: cli.ContainerRemove with RemoveVolumes and Force
StopRemove ==
    /\ kind = "sandbox_stop" /\ pc = "remove"
    /\ \E ok \in BOOLEAN :
        /\ Issue("remove", EngineUp(ok) /\ Resolve(args.target) # {})
        /\ IF EngineUp(ok) /\ Resolve(args.target) # {}
           THEN /\ \E c \in Resolve(args.target) :
                     /\ containers' = [containers EXCEPT ![c].st = "removed"]
                     /\ stopOK' = stopOK \cup {c}
                /\ Return(Ok("Successfully stopped and removed container"))
           ELSE /\ Return(ErrorText("failed to remove container"))
                /\ UNCHANGED <<containers, stopOK>>
    /\ UNCHANGED <<kind, args, cid, sent, ctxDone>>
    /\ UNCHANGED <<execVars, waitVars>>
    /\ UNCHANGED <<inited, stopped, cancelInWait>>
    /\ UNCHANGED <<comp, xfer, scan, registry, put, poll, pair>>

\* ------------------------------------------------- the engine's containers
\* the main process of a running container ends
ContainerExit ==
    \E c \in CIds :
        /\ containers[c].st = "running"
        /\ containers' = [containers EXCEPT ![c].st = "exited"]
        /\ UNCHANGED <<callVars, sent, ctxDone>>
        /\ UNCHANGED <<execVars, waitVars, histVars>>
        /\ UNCHANGED <<comp, xfer, scan, registry, put, poll, pair>>

\* a running container writes a chunk of output
ContainerWrite ==
    \E c \in CIds :
        /\ containers[c].st = "running"
        /\ containers[c].out < MaxOut
        /\ containers' = [containers EXCEPT ![c].out = @ + 1]
        /\ UNCHANGED <<callVars, sent, ctxDone>>
        /\ UNCHANGED <<execVars, waitVars, histVars>>
        /\ UNCHANGED <<comp, xfer, scan, registry, put, poll, pair>>

\* ------------------------------------------------------- sandbox_exec
ExitCodes == {0, 1, 2}
\* what a command writes: <<stdout is non-empty, stderr is non-empty>>
OutputShapes == {<<FALSE, FALSE>>, <<TRUE, TRUE>>}

BeginExec ==
    \E t \in Targets, n \in 1..MaxCmds :
        Begin("sandbox_exec", "exec", [NoArgs EXCEPT !.target = t, !.n = n])

Item(t, k, code) == [t |-> t, cmd |-> k, code |-> code]

\* Exec: the exit-code test that ends the loop over the commands
NeverBreak(exitCode) == FALSE
ShouldBreak(exitCode) == exitCode # 0

\* Exec: what one command adds to outputBuilder after its "$ cmd" label
ReportedOutput(k, hasOut, hasErr, exitCode) ==
    (IF hasOut THEN <<Item("stdout", k, 0)>> ELSE <<>>)
    \o (IF hasErr THEN <<Item("stderr", k, 0)>> ELSE <<>>)
    \o (IF ShouldBreak(exitCode) THEN <<Item("exit", k, exitCode)>> ELSE <<>>)

\* Exec: what the call returns when executeCommandWithOutput returned an
\* error; outputBuilder, with what the earlier commands wrote, is dropped
ExecErrorWithTranscript(b) ==
    [ErrorText("Error executing command") EXCEPT !.transcript = b]
ExecError(b) == ErrorText("Error executing command")

\* the engine accepts an exec only in a running container
ExecAccepted(ok, target) ==
    EngineUp(ok) /\ \E c \in Resolve(target) : containers[c].st = "running"

\* Exec: one iteration of the loop, with executeCommandWithOutput
ExecCommand ==
    /\ kind = "sandbox_exec" /\ pc = "exec"
    /\ \E ok \in BOOLEAN :
        IF ~ExecAccepted(ok, args.target)
           THEN \* ContainerExecCreate or ContainerExecAttach failed
                /\ Issue("exec", FALSE)
                /\ builder' = Append(builder, Item("label", idx + 1, 0))
                /\ Return(ExecError(builder'))
                /\ UNCHANGED <<idx, started, exits>>
           ELSE \E read \in BOOLEAN :
                IF ~read
                THEN \* StdCopy or ContainerExecInspect failed
                     /\ Issue("exec", FALSE)
                     /\ builder' = Append(builder, Item("label", idx + 1, 0))
                     /\ started' = Append(started, idx + 1)
                     /\ Return(ExecError(builder'))
                     /\ UNCHANGED <<idx, exits>>
                ELSE \E shape \in OutputShapes, code \in ExitCodes :
                     LET b == Append(builder, Item("label", idx + 1, 0))
                              \o ReportedOutput(idx + 1, shape[1], shape[2], code)
                     IN /\ Issue("exec", TRUE)
                        /\ builder' = b
                        /\ started' = Append(started, idx + 1)
                        /\ exits' = Append(exits, code)
                        /\ idx' = idx + 1
                        /\ IF ShouldBreak(code) \/ idx + 1 = args.n
                           THEN Return([Ok("transcript") EXCEPT !.transcript = b])
                           ELSE UNCHANGED <<pc, result>>
    /\ UNCHANGED <<containers, kind, args, cid, sent, ctxDone>>
    /\ UNCHANGED <<waitVars, histVars>>
    /\ UNCHANGED <<comp, xfer, scan, registry, put, poll, pair>>

\* ----------------------------------------------------------- run_code
RunImage == "python:3.12-slim-bookworm"

BeginRunCode ==
    \E meta \in BOOLEAN : Begin("run_code", "notify", [NoArgs EXCEPT !.meta = meta])

\* RunCodeSandbox: the progress token is read from Params.Meta, then
\* progress 10 (a failed send ends the call), then progress 50
RunCodeNotify ==
    /\ kind = "run_code" /\ pc = "notify"
    /\ IF ~args.meta
       THEN Return(NilMeta) /\ UNCHANGED sent
       ELSE \E sendOk \in BOOLEAN :
                IF sendOk
                THEN sent' = sent \o <<10, 50>> /\ pc' = "pull" /\ UNCHANGED result
                ELSE sent' = Append(sent, 10)
                     /\ Return(ToolError("Could not send progress to client"))
    /\ UNCHANGED <<containers, kind, args, cid, ops, ctxDone>>
    /\ UNCHANGED <<execVars, waitVars, histVars>>
    /\ UNCHANGED <<comp, xfer, scan, registry, put, poll, pair>>

\* RunCodeSandbox: progress 100 follows every return of runInDocker
RunCodeReturn(r) == sent' = Append(sent, 100) /\ Return(r)

\* runInDocker: cli.ImagePull
RunCodePull ==
    /\ kind = "run_code" /\ pc = "pull"
    /\ \E ok \in BOOLEAN :
        /\ Issue("pull", EngineUp(ok))
        /\ IF EngineUp(ok)
           THEN pc' = "create" /\ UNCHANGED <<result, sent>>
           ELSE RunCodeReturn(ToolError("failed to pull Docker image"))
    /\ UNCHANGED <<containers, kind, args, cid, ctxDone>>
    /\ UNCHANGED <<execVars, waitVars, histVars>>
    /\ UNCHANGED <<comp, xfer, scan, registry, put, poll, pair>>

\* runInDocker: cli.ContainerCreate without a name
RunCodeCreate ==
    /\ kind = "run_code" /\ pc = "create"
    /\ \E ok \in BOOLEAN :
        /\ Issue("create", CreateAccepted(ok, ""))
        /\ IF CreateAccepted(ok, "")
           THEN /\ containers' = [containers EXCEPT
                      ![NextId] = Created(NextId, RunImage, "", FALSE)]
                /\ cid' = NextId
                /\ pc' = "start" /\ UNCHANGED <<result, sent>>
           ELSE /\ RunCodeReturn(ToolError("failed to create container"))
                /\ UNCHANGED <<containers, cid>>
    /\ UNCHANGED <<kind, args, ctxDone>>
    /\ UNCHANGED <<execVars, waitVars, histVars>>
    /\ UNCHANGED <<comp, xfer, scan, registry, put, poll, pair>>

\* runInDocker: cli.ContainerStart, then the ticker, the ContainerWait
\* goroutine and progress := 50
RunCodeStart ==
    /\ kind = "run_code" /\ pc = "start"
    /\ \E ok \in BOOLEAN :
        /\ Issue("start", EngineUp(ok))
        /\ IF EngineUp(ok)
           THEN /\ containers' = [containers EXCEPT ![cid].st = "running"]
                /\ tickerOn' = TRUE /\ gpc' = "waiting" /\ progress' = 50
                /\ pc' = "loop" /\ UNCHANGED <<result, sent>>
           ELSE /\ RunCodeReturn(ToolError("failed to start container"))
                /\ UNCHANGED <<containers, tickerOn, gpc, progress>>
    /\ UNCHANGED <<kind, args, cid, ctxDone, tickerC, waitDone, waitErr>>
    /\ UNCHANGED <<execVars, histVars>>
    /\ UNCHANGED <<comp, xfer, scan, registry, put, poll, pair>>

\* the ticker delivers into ticker.C, which holds one tick
TickerFire ==
    /\ tickerOn /\ tickerC = 0
    /\ progress < 50 + 5 * MaxTicks
    /\ tickerC' = 1
    /\ UNCHANGED <<containers, callVars, sent, ctxDone>>
    /\ UNCHANGED <<execVars, progress, tickerOn, gpc, waitDone, waitErr, histVars>>
    /\ UNCHANGED <<comp, xfer, scan, registry, put, poll, pair>>

\* a goroutine that closes waitDone before it has the answer of ContainerWait
GoWaitClosesFirst ==
    /\ gpc = "waiting"
    /\ waitDone' = TRUE /\ gpc' = "closing"
    /\ UNCHANGED <<containers, callVars, sent, ctxDone>>
    /\ UNCHANGED <<execVars, progress, tickerOn, tickerC, waitErr, histVars>>
    /\ UNCHANGED <<comp, xfer, scan, registry, put, poll, pair>>

\* the goroutine: ContainerWait answers on statusCh or on errCh
GoWait ==
    /\ gpc = "waiting"
    /\ \E ok \in BOOLEAN :
        IF EngineUp(ok) /\ Exists(cid)
        THEN containers[cid].st # "running" /\ waitErr' = FALSE
        ELSE waitErr' = TRUE
    /\ gpc' = "closing"
    /\ UNCHANGED <<containers, callVars, sent, ctxDone>>
    /\ UNCHANGED <<execVars, progress, tickerOn, tickerC, waitDone, histVars>>
    /\ UNCHANGED <<comp, xfer, scan, registry, put, poll, pair>>

\* the goroutine: close(waitDone)
GoClose ==
    /\ gpc = "closing"
    /\ waitDone' = TRUE /\ gpc' = "done"
    /\ UNCHANGED <<containers, callVars, sent, ctxDone>>
    /\ UNCHANGED <<execVars, progress, tickerOn, tickerC, waitErr, histVars>>
    /\ UNCHANGED <<comp, xfer, scan, registry, put, poll, pair>>

\* select, case <-ticker.C
LoopTick ==
    /\ kind = "run_code" /\ pc = "loop"
    /\ tickerC = 1
    /\ tickerC' = 0
    /\ progress' = progress + 5
    /\ sent' = Append(sent, progress + 5)
    /\ UNCHANGED <<containers, callVars, ctxDone>>
    /\ UNCHANGED <<execVars, tickerOn, gpc, waitDone, waitErr, histVars>>
    /\ UNCHANGED <<comp, xfer, scan, registry, put, poll, pair>>

\* what runInDocker returns from case <-ctx.Done()
CancelResultNoError == Ok("")
CancelResult == ToolError("context canceled")

\* select, case <-ctx.Done(): return "", ctx.Err()
LoopCtxDone ==
    /\ kind = "run_code" /\ pc = "loop"
    /\ ctxDone
    /\ tickerOn' = FALSE
    /\ RunCodeReturn(CancelResult)
    /\ UNCHANGED <<containers, kind, args, cid, ops, ctxDone>>
    /\ UNCHANGED <<execVars, progress, tickerC, gpc, waitDone, waitErr, histVars>>
    /\ UNCHANGED <<comp, xfer, scan, registry, put, poll, pair>>

\* select, case <-waitDone
LoopWaitDone ==
    /\ kind = "run_code" /\ pc = "loop"
    /\ waitDone
    /\ IF waitErr
       THEN tickerOn' = FALSE
            /\ RunCodeReturn(ToolError("error waiting for container"))
       ELSE pc' = "logs" /\ UNCHANGED <<result, sent, tickerOn>>
    /\ UNCHANGED <<containers, kind, args, cid, ops, ctxDone>>
    /\ UNCHANGED <<execVars, progress, tickerC, gpc, waitDone, waitErr, histVars>>
    /\ UNCHANGED <<comp, xfer, scan, registry, put, poll, pair>>

\* container.LogsOptions{} of runInDocker
RunCodeLogsOptions == [stdout |-> FALSE, stderr |-> FALSE]
\* container.LogsOptions{ShowStdout: true, ShowStderr: true}
BothStreams == [stdout |-> TRUE, stderr |-> TRUE]

\* the containers a run leaves in the engine when it returns
RemovedAfterRun(c) == [containers EXCEPT ![c].st = "removed"]
LeftAfterRun(c) == containers

\* runInDocker: cli.ContainerLogs, StdCopy, return stdout + stderr
RunCodeLogs ==
    /\ kind = "run_code" /\ pc = "logs"
    /\ tickerOn' = FALSE
    /\ containers' = LeftAfterRun(cid)
    /\ \E ok \in BOOLEAN :
        LET got == EngineUp(ok) /\ Exists(cid) /\ LogsAccepted(RunCodeLogsOptions)
        IN /\ Issue("logs", got)
           /\ IF got
              THEN RunCodeReturn([Ok("logs") EXCEPT !.out = containers[cid].out])
              ELSE RunCodeReturn(ToolError("failed to get container logs"))
    /\ UNCHANGED <<kind, args, cid, ctxDone>>
    /\ UNCHANGED <<execVars, progress, tickerC, gpc, waitDone, waitErr, histVars>>
    /\ UNCHANGED <<comp, xfer, scan, registry, put, poll, pair>>

\* The request is cancelled or times out while its handler runs. runInDocker
\* is the one handler that reads ctx.Done(); to the others a cancelled context
\* is a failing engine request, which every engine step already allows.
Cancellable == {"run_code"}

CtxCancel ==
    /\ kind \in Cancellable /\ pc \notin {"idle", "done"}
    /\ ~ctxDone
    /\ ctxDone' = TRUE
    /\ cancelInWait' = (kind = "run_code" /\ pc = "loop")
    /\ UNCHANGED <<containers, callVars, sent>>
    /\ UNCHANGED <<execVars, waitVars, inited, stopped, stopOK>>
    /\ UNCHANGED <<comp, xfer, scan, registry, put, poll, pair>>

\* -------------------------------------------- run_project (tools package)
BeginRunProject ==
    \E meta \in BOOLEAN : Begin("run_project", "pull", [NoArgs EXCEPT !.meta = meta])

\* RunProjectSandbox reads the progress token from Params.Meta;
\* runProjectInDocker: progress 10 (a failed send ends the call), cli.ImagePull
RunProjectPull ==
    /\ kind = "run_project" /\ pc = "pull"
    /\ IF ~args.meta
       THEN Return(NilMeta) /\ UNCHANGED <<sent, ops>>
       ELSE /\ sent' = Append(sent, 10)
            /\ \E sendOk \in BOOLEAN :
                IF ~sendOk
                THEN Return(ToolError("failed to send progress notification"))
                     /\ UNCHANGED ops
                ELSE \E ok \in BOOLEAN :
                         /\ Issue("pull", EngineUp(ok))
                         /\ IF EngineUp(ok)
                            THEN pc' = "create" /\ UNCHANGED result
                            ELSE Return(ToolError("failed to pull Docker image"))
    /\ UNCHANGED <<containers, kind, args, cid, ctxDone>>
    /\ UNCHANGED <<execVars, waitVars, histVars>>
    /\ UNCHANGED <<comp, xfer, scan, registry, put, poll, pair>>

\* runProjectInDocker: progress 50, cli.ContainerCreate, progress 75
RunProjectCreate ==
    /\ kind = "run_project" /\ pc = "create"
    /\ \E ok \in BOOLEAN :
        /\ Issue("create", CreateAccepted(ok, ""))
        /\ IF CreateAccepted(ok, "")
           THEN /\ containers' = [containers EXCEPT
                      ![NextId] = Created(NextId, RunImage, "", FALSE)]
                /\ cid' = NextId
                /\ sent' = sent \o <<50, 75>>
                /\ pc' = "start" /\ UNCHANGED result
           ELSE /\ sent' = Append(sent, 50)
                /\ Return(ToolError("failed to create container"))
                /\ UNCHANGED <<containers, cid>>
    /\ UNCHANGED <<kind, args, ctxDone>>
    /\ UNCHANGED <<execVars, waitVars, histVars>>
    /\ UNCHANGED <<comp, xfer, scan, registry, put, poll, pair>>

\* runProjectInDocker: cli.ContainerStart, progress 100, return resp.ID
RunProjectStart ==
    /\ kind = "run_project" /\ pc = "start"
    /\ \E ok \in BOOLEAN :
        /\ Issue("start", EngineUp(ok))
        /\ IF EngineUp(ok)
           THEN /\ containers' = [containers EXCEPT ![cid].st = "running"]
                /\ sent' = Append(sent, 100)
                /\ pc' = "logs" /\ UNCHANGED result
           ELSE /\ Return(ToolError("failed to start container"))
                /\ UNCHANGED <<containers, sent>>
    /\ UNCHANGED <<kind, args, cid, ctxDone>>
    /\ UNCHANGED <<execVars, waitVars, histVars>>
    /\ UNCHANGED <<comp, xfer, scan, registry, put, poll, pair>>

\* StdCopy over the stream ContainerLogs returns: a container created with a
\* tty has an unframed stream, whose bytes are no frame headers
StdCopyAccepts(c) == ~containers[c].tty \/ containers[c].out = 0

\* RunProjectSandbox: the logs so far, as the resource containers://<id>/logs
RunProjectLogs ==
    /\ kind = "run_project" /\ pc = "logs"
    /\ containers' = LeftAfterRun(cid)
    /\ \E ok \in BOOLEAN :
        LET got == EngineUp(ok) /\ Exists(cid) /\ LogsAccepted(BothStreams)
                   /\ StdCopyAccepts(cid)
        IN /\ Issue("logs", got)
           /\ IF got
              THEN Return([Ok("logs") EXCEPT !.out = containers[cid].out,
                                             !.id = FullId(cid)])
              ELSE Return(Fault("error fetching container logs"))
    /\ UNCHANGED <<kind, args, cid, sent, ctxDone>>
    /\ UNCHANGED <<execVars, waitVars, histVars>>
    /\ UNCHANGED <<comp, xfer, scan, registry, put, poll, pair>>

\* ------------------------------------- run_project (docker-sandbox-mcp)
BeginRunProjectBackground ==
    \E bg \in BOOLEAN :
        Begin("run_project_background", "pull", [NoArgs EXCEPT !.bg = bg])

\* runProjectInDocker: cli.ImagePull
BackgroundPull ==
    /\ kind = "run_project_background" /\ pc = "pull"
    /\ \E ok \in BOOLEAN :
        /\ Issue("pull", EngineUp(ok))
        /\ IF EngineUp(ok)
           THEN pc' = "create" /\ UNCHANGED result
           ELSE Return(ErrorText("failed to pull Docker image"))
    /\ UNCHANGED <<containers, kind, args, cid, sent, ctxDone>>
    /\ UNCHANGED <<execVars, waitVars, histVars>>
    /\ UNCHANGED <<comp, xfer, scan, registry, put, poll, pair>>

\* runProjectInDocker: cli.ContainerCreate
BackgroundCreate ==
    /\ kind = "run_project_background" /\ pc = "create"
    /\ \E ok \in BOOLEAN :
        /\ Issue("create", CreateAccepted(ok, ""))
        /\ IF CreateAccepted(ok, "")
           THEN /\ containers' = [containers EXCEPT
                      ![NextId] = Created(NextId, RunImage, "", FALSE)]
                /\ cid' = NextId
                /\ pc' = "start" /\ UNCHANGED result
           ELSE /\ Return(ErrorText("failed to create container"))
                /\ UNCHANGED <<containers, cid>>
    /\ UNCHANGED <<kind, args, sent, ctxDone>>
    /\ UNCHANGED <<execVars, waitVars, histVars>>
    /\ UNCHANGED <<comp, xfer, scan, registry, put, poll, pair>>

\* runProjectInDocker: if background { return ... }
NeverReturnsAfterStart(background) == FALSE
ReturnsAfterStart(background) == background

\* runProjectInDocker: cli.ContainerStart; in background mode the call returns
BackgroundStart ==
    /\ kind = "run_project_background" /\ pc = "start"
    /\ \E ok \in BOOLEAN :
        /\ Issue("start", EngineUp(ok))
        /\ IF EngineUp(ok)
           THEN /\ containers' = [containers EXCEPT ![cid].st = "running"]
                /\ IF ReturnsAfterStart(args.bg)
                   THEN Return([Ok("Container started in background mode")
                                   EXCEPT !.id = FullId(cid)])
                   ELSE pc' = "wait" /\ UNCHANGED result
           ELSE /\ Return(ErrorText("failed to start container"))
                /\ UNCHANGED containers
    /\ UNCHANGED <<kind, args, cid, sent, ctxDone>>
    /\ UNCHANGED <<execVars, waitVars, histVars>>
    /\ UNCHANGED <<comp, xfer, scan, registry, put, poll, pair>>

\* runProjectInDocker: cli.ContainerWait, select on errCh and statusCh
BackgroundWait ==
    /\ kind = "run_project_background" /\ pc = "wait"
    /\ \E ok \in BOOLEAN :
        /\ Issue("wait", EngineUp(ok) /\ Exists(cid))
        /\ IF EngineUp(ok) /\ Exists(cid)
           THEN containers[cid].st # "running" /\ pc' = "logs" /\ UNCHANGED result
           ELSE Return(ErrorText("error waiting for container"))
    /\ UNCHANGED <<containers, kind, args, cid, sent, ctxDone>>
    /\ UNCHANGED <<execVars, waitVars, histVars>>
    /\ UNCHANGED <<comp, xfer, scan, registry, put, poll, pair>>

\* runProjectInDocker: cli.ContainerLogs of both streams, StdCopy
BackgroundLogs ==
    /\ kind = "run_project_background" /\ pc = "logs"
    /\ containers' = LeftAfterRun(cid)
    /\ \E ok \in BOOLEAN :
        LET got == EngineUp(ok) /\ Exists(cid) /\ LogsAccepted(BothStreams)
                   /\ StdCopyAccepts(cid)
        IN /\ Issue("logs", got)
           /\ IF got
              THEN Return([Ok("logs") EXCEPT !.out = containers[cid].out])
              ELSE Return(ErrorText("failed to get container logs"))
    /\ UNCHANGED <<kind, args, cid, sent, ctxDone>>
    /\ UNCHANGED <<execVars, waitVars, histVars>>
    /\ UNCHANGED <<comp, xfer, scan, registry, put, poll, pair>>

\* ---------------------------------------------------- the logs resource
BeginLogs ==
    \E t \in Targets : Begin("logs", "read", [NoArgs EXCEPT !.target = t])

\* GetContainerLogs: cli.ContainerLogs of both streams, then StdCopy. Over the
\* unframed stream of a tty container StdCopy either meets a byte that is no
\* stream type and fails, or meets the end of the stream inside the 8 bytes
\* it takes for a header and returns nothing.
GetContainerLogs ==
    /\ kind = "logs" /\ pc = "read"
    /\ \E ok \in BOOLEAN :
        LET got == EngineUp(ok) /\ Resolve(args.target) # {}
                   /\ LogsAccepted(BothStreams)
        IN /\ Issue("logs", got)
           /\ IF ~got
              THEN Return(Fault("error fetching container logs"))
              ELSE \E c \in Resolve(args.target) :
                       IF StdCopyAccepts(c)
                       THEN Return([Ok("logs") EXCEPT !.out = containers[c].out])
                       ELSE \/ Return(Fault("error copying container logs"))
                            \/ Return(Ok("logs"))
    /\ UNCHANGED <<containers, kind, args, cid, sent, ctxDone>>
    /\ UNCHANGED <<execVars, waitVars, histVars>>
    /\ UNCHANGED <<comp, xfer, scan, registry, put, poll, pair>>

Next ==
    \/ BeginInitialize \/ InitPull \/ InitCreate \/ InitStart
    \/ BeginList \/ ListSandboxes
    \/ BeginStop \/ StopStop \/ StopRemove
    \/ BeginExec \/ ExecCommand
    \/ BeginRunCode \/ RunCodeNotify \/ RunCodePull \/ RunCodeCreate
    \/ RunCodeStart \/ LoopTick \/ LoopCtxDone \/ LoopWaitDone \/ RunCodeLogs
    \/ TickerFire \/ GoWait \/ GoClose \/ CtxCancel
    \/ BeginRunProject \/ RunProjectPull \/ RunProjectCreate
    \/ RunProjectStart \/ RunProjectLogs
    \/ BeginRunProjectBackground \/ BackgroundPull \/ BackgroundCreate
    \/ BackgroundStart \/ BackgroundWait \/ BackgroundLogs
    \/ BeginLogs \/ GetContainerLogs
    \/ ContainerExit \/ ContainerWrite

Spec == Init /\ [][Next]_vars

\* ContainerWait has an answer for the goroutine: the container stopped
\* running, or the request context was cancelled
WaitAnswered == gpc = "waiting" /\ (containers[cid].st # "running" \/ ctxDone)

\* run_code calls one after the other, with what the engine, the
\* container and the client do meanwhile
RunCodeNext ==
    \/ BeginRunCode \/ RunCodeNotify \/ RunCodePull \/ RunCodeCreate
    \/ RunCodeStart \/ LoopTick \/ LoopCtxDone \/ LoopWaitDone \/ RunCodeLogs
    \/ TickerFire \/ GoWait \/ GoClose \/ CtxCancel
    \/ ContainerExit \/ ContainerWrite

\* The Go scheduler runs a goroutine that can run: the waiter takes the
\* answer once there is one, and closes the channel once it has taken it.
FairSpec ==
    Init /\ [][RunCodeNext]_vars /\ WF_vars(WaitAnswered /\ GoWait) /\ WF_vars(GoClose)

\* =================================================== command composition
AndAnd == Tok("&&")
Semi == Tok(";")

\* container.Config.Cmd: argv as given or {"/bin/sh", "-c", script}; an empty
\* argv is a Cmd left unset, for which the image's default command runs
Argv(words) == [sh |-> FALSE, words |-> words]
ShC(script) == [sh |-> TRUE, words |-> script]
CmdUnset == Argv(<<>>)

\* Language.IsValid
IsValid(lang) == lang \in Languages

\* the composing functions of the repository
ProjectFlows == {"run_project", "run_project_010", "run_project_main"}
InlineFlows == {"run_code", "run_with_deps"}

\* the registry a flow reads
ConfigOf(flow, lang) ==
    IF flow = "run_project_main" THEN supportedLanguages(lang)
    ELSE SupportedLanguages(lang)

\* the first of the language's dependency files that os.Stat finds in the
\* project directory: <<hasDepFile, depFile>>
RECURSIVE FindDepFile(_, _)
FindDepFile(files, dir) ==
    IF files = <<>> THEN <<FALSE, "">>
    ELSE IF Head(files) \in dir THEN <<TRUE, Head(files)>>
    ELSE FindDepFile(Tail(files), dir)

\* the install step put before "&&" for a dependency file
InstallFor(lang, depFile) ==
    CASE lang = "python" /\ depFile = "requirements.txt" ->
           <<Tok("pip"), Tok("install"), Tok("-r"), Tok(depFile)>>
      [] lang = "python" /\ depFile \in {"pyproject.toml", "setup.py"} ->
           <<Tok("pip"), Tok("install"), Tok(".")>>
      [] lang = "go" -> <<Tok("go"), Tok("mod"), Tok("download")>>
      [] lang = "nodejs" -> <<Tok("npm"), Tok("install")>>
      [] OTHER -> <<>>

\* fmt.Sprintf("<install> && %s", strings.Join(cmd, " "))
JoinedBySemi(install, cmd) == install \o <<Semi>> \o cmd
Joined(install, cmd) == install \o <<AndAnd>> \o cmd

\* runProjectInDocker of docker-sandbox-mcp: the node command of the last
\* argument's extension replaces the first word of the entrypoint
NodeCmdMain(cmd) ==
    IF Ext(cmd[Len(cmd)]) # "" /\ Ext(cmd[Len(cmd)]) \in RegisteredExts
    THEN FileExtensions(Ext(cmd[Len(cmd)])) \o Tail(cmd)
    ELSE cmd

\* runProjectInDocker of part_010: RunCommand replaces the first word of the
\* entrypoint whenever the last argument has an extension
NodeCmd010(cmd) ==
    IF Ext(cmd[Len(cmd)]) # "" /\ SupportedLanguages("nodejs").RunCommand # <<>>
    THEN SupportedLanguages("nodejs").RunCommand \o Tail(cmd)
    ELSE cmd

NodeCmd(flow, cmd) ==
    IF flow = "run_project_main" THEN NodeCmdMain(cmd) ELSE NodeCmd010(cmd)

\* the same append seen from the registry: its first argument is a slice of
\* the registry, whose backing array the call may store into
NodeCmdStores(flow, cmd, reg) ==
    IF flow = "run_project_main"
    THEN IF Ext(cmd[Len(cmd)]) # "" /\ Ext(cmd[Len(cmd)]) \in RegisteredExts
         THEN StoreInto(reg, Ext(cmd[Len(cmd)]),
                        AppendStores(StartUp.FileExtensions[Ext(cmd[Len(cmd)])],
                                     Tail(cmd)))
         ELSE reg
    ELSE IF Ext(cmd[Len(cmd)]) # "" /\ SupportedLanguages("nodejs").RunCommand # <<>>
         THEN StoreInto(reg, "nodejs",
                        AppendStores(StartUp.SupportedLanguages["nodejs"].RunCommand,
                                     Tail(cmd)))
         ELSE reg

\* the switch over the language inside `if hasDepFile`
WithoutInstall(lang, depFile, cmd) == Argv(cmd)
WithInstall(lang, depFile, cmd) ==
    IF lang \in Languages /\ InstallFor(lang, depFile) # <<>>
    THEN ShC(Joined(InstallFor(lang, depFile), cmd))
    ELSE CmdUnset

\* runProjectInDocker of tools/run_project.go (and part_009): containerConfig.Cmd
ComposeProject(lang, dir, cmd) ==
    LET found == FindDepFile(SupportedLanguages(lang).DependencyFiles, dir)
    IN IF found[1] THEN WithInstall(lang, found[2], cmd) ELSE CmdUnset

\* runProjectInDocker of docker-sandbox-mcp and of part_010: containerConfig.Cmd
ComposeProjectElse(flow, lang, dir, cmd) ==
    LET found == FindDepFile(ConfigOf(flow, lang).DependencyFiles, dir)
        run == IF lang = "nodejs" THEN NodeCmd(flow, cmd) ELSE cmd
    IN IF found[1] THEN WithInstall(lang, found[2], run) ELSE Argv(run)

\* cmd[len(cmd)-1] of an empty entrypoint is an index out of range
Panics(flow, lang, cmd) ==
    flow \in {"run_project_010", "run_project_main"} /\ lang = "nodejs" /\ cmd = <<>>

\* strings.ToValidUTF8(code, "")
ToValidUTF8(code) == [code EXCEPT !.valid = TRUE]

GoScript == <<Tok("go"), Tok("mod"), Tok("init"), Tok("sandbox"), AndAnd,
              Tok("go"), Tok("mod"), Tok("tidy"), AndAnd,
              Tok("go"), Tok("run"), File("main", ".go")>>

\* RunCodeSandbox: cmd := config.RunCommand, replaced for Go
ComposeCode(lang) ==
    IF lang = "go" THEN ShC(GoScript) ELSE Argv(SupportedLanguages(lang).RunCommand)

NoMount == {}
\* runInDocker: the temporary directory bound to /app, with the code file
CodeMount(lang, code) ==
    CASE lang = "go" -> {[name |-> File("main", ".go"), content |-> code]}
      [] lang = "nodejs" -> {[name |-> File("main", ".ts"), content |-> code]}
      [] OTHER -> NoMount

\* languageConfigs of the dependencies package
languageConfigs(lang) ==
    CASE lang = "python" ->
           [image |-> "python:3.12-slim-bookworm", fileExtension |-> ".py",
            installCmd |-> <<Tok("pip"), Tok("install"), Tok("-r"), Tok("requirements.txt")>>,
            requirementsFile |-> Tok("requirements.txt"),
            runCommand |-> <<Tok("python"), Tok("-c")>>]
      [] lang = "nodejs" ->
           [image |-> "node:23-slim", fileExtension |-> ".js",
            installCmd |-> <<Tok("npm"), Tok("install"), Tok("--no-save")>>,
            requirementsFile |-> Tok("package.json"),
            runCommand |-> <<Tok("node"), Tok("-e")>>]
      [] OTHER ->
           [image |-> "golang:1.21-alpine", fileExtension |-> ".go",
            installCmd |-> <<Tok("go"), Tok("get"), Tok("./...")>>,
            requirementsFile |-> Tok("go.mod"),
            runCommand |-> <<Tok("go"), Tok("run")>>]

\* RunWithDependencies: containerConfig.Cmd
ComposeWithDeps(lang) ==
    ShC(Joined(languageConfigs(lang).installCmd,
               Append(languageConfigs(lang).runCommand,
                      File("main", languageConfigs(lang).fileExtension))))

\* RunWithDependencies: the temporary directory with the code file and the
\* requirements file generated from deps
DepsMount(lang, code, deps) ==
    {[name |-> File("main", languageConfigs(lang).fileExtension), content |-> code],
     [name |-> languageConfigs(lang).requirementsFile,
      content |-> [text |-> "requirements", valid |-> TRUE, deps |-> deps]]}

\* /bin/sh -c: the commands of a script in order, each with the operator
\* ("&&" or ";") that joins it to the command before it
RECURSIVE SplitScript(_, _, _)
SplitScript(words, acc, sep) ==
    IF words = <<>> THEN <<[words |-> acc, sep |-> sep]>>
    ELSE IF Head(words) \in {AndAnd, Semi}
    THEN <<[words |-> acc, sep |-> sep]>>
         \o SplitScript(Tail(words), <<>>, Head(words).base)
    ELSE SplitScript(Tail(words), Append(acc, Head(words)), sep)

ImageDefault == <<Tok("image-default-command")>>

\* the commands the started container runs for its Cmd
StepsOf(cmd) ==
    IF cmd.sh THEN SplitScript(cmd.words, <<>>, "")
    ELSE IF cmd.words = <<>> THEN <<[words |-> ImageDefault, sep |-> ""]>>
    ELSE <<[words |-> cmd.words, sep |-> ""]>>

\* /bin/sh: a command joined by "&&" runs only after an exit code of 0
RunsNext(sep, exitCode) == sep = ";" \/ exitCode = 0

\* hostConfig.Binds of runProjectInDocker: "%s:/app" with projectDir, no
\* option after the target
ProjectBind == [source |-> "projectDir", target |-> "/app", options |-> ""]
\* hostConfig.Binds of the inline flows: the temporary directory
TmpBind == [source |-> "tmpDir", target |-> "/app", options |-> ""]

\* the engine mounts a bind read-only only when its options say "ro"
ReadOnly(bind) == bind.options = "ro"

\* what a command of the container does under /app
AppWrites == {"none", "create", "delete"}

\* the host directory of a bind after a command wrote under its target: a
\* read-only mount refuses the write, any other mount passes it on
WriteUnderApp(bind, dir, write) ==
    IF ReadOnly(bind) THEN dir
    ELSE CASE write = "create" -> dir \cup {"created-in-container"}
           [] write = "delete" -> {}
           [] OTHER -> dir

\* ------------------------------------------------------------- inputs
ProjectDirs ==
    {{}, {"README.md"}, {"requirements.txt"}, {"pyproject.toml", "setup.py"},
     {"go.mod"}, {"package.json"}, {"requirements.txt", "package.json"}}

Entrypoints ==
    {<<Tok("python"), File("main", ".py")>>,
     <<Tok("go"), Tok("run"), Tok(".")>>,
     <<Tok("node"), File("index", ".js")>>,
     <<Tok("node"), File("index", ".ts")>>,
     <<Tok("node"), File("app", ".tsx")>>,
     <<Tok("node"), File("server", ".mjs")>>,
     <<Tok("node"), Tok("server")>>,
     <<File("index", ".ts")>>,
     <<>>}

Codes == {[text |-> "print", valid |-> TRUE], [text |-> "print", valid |-> FALSE]}
DepSets == {{}, {"requests"}}

NoCode == [text |-> "", valid |-> TRUE]

\* ------------------------------------------------------------- actions
CompOthers == UNCHANGED <<containers, callVars, execVars, waitVars, histVars,
                          sent, ctxDone, xfer, scan, put, poll, pair>>
CompRest == CompOthers /\ UNCHANGED registry

\* a request reaches one of the composing functions
CompRequest ==
    /\ comp.phase = "idle"
    /\ \/ \E flow \in ProjectFlows, lang \in Languages \cup OtherLanguages,
            dir \in ProjectDirs, entry \in Entrypoints :
            comp' = [phase |-> "lookup", flow |-> flow, lang |-> lang, dir |-> dir,
                     entry |-> entry, code |-> NoCode, deps |-> {},
                     config |-> ZeroConfig, Cmd |-> CmdUnset, mount |-> NoMount,
                     Binds |-> <<>>, host |-> dir,
                     ops |-> <<>>, steps |-> <<>>, ran |-> <<>>, error |-> ""]
       \/ \E flow \in InlineFlows, code \in Codes, deps \in DepSets :
          \E lang \in IF flow = "run_code" THEN Languages \cup OtherLanguages
                      ELSE Languages :
            comp' = [phase |-> "lookup", flow |-> flow, lang |-> lang, dir |-> {},
                     entry |-> <<>>, code |-> code, deps |-> deps,
                     config |-> ZeroConfig, Cmd |-> CmdUnset, mount |-> NoMount,
                     Binds |-> <<>>, host |-> {},
                     ops |-> <<>>, steps |-> <<>>, ran |-> <<>>, error |-> ""]
    /\ CompRest

\* the handler validates the language, or does not, and reads the registry
CompLookup ==
    /\ comp.phase = "lookup"
    /\ IF comp.flow = "run_project_main" /\ ~IsValid(comp.lang)
       THEN comp' = [comp EXCEPT !.phase = "failed", !.error = "unsupported language"]
       ELSE comp' = [comp EXCEPT !.phase = "pull",
                                 !.config = IF comp.flow = "run_with_deps"
                                            THEN [ZeroConfig EXCEPT !.Image =
                                                     languageConfigs(comp.lang).image]
                                            ELSE ConfigOf(comp.flow, comp.lang)]
    /\ CompRest

\* cli.ImagePull: an empty image name is no image reference
PullAccepted(ok, image) == ok /\ image # ""

CompPull ==
    /\ comp.phase = "pull"
    /\ \E ok \in BOOLEAN :
        IF PullAccepted(ok, comp.config.Image)
        THEN comp' = [comp EXCEPT !.phase = "compose",
                                  !.ops = Append(@, [op |-> "pull", ok |-> TRUE])]
        ELSE comp' = [comp EXCEPT !.phase = "failed",
                                  !.ops = Append(@, [op |-> "pull", ok |-> FALSE]),
                                  !.error = "failed to pull Docker image"]
    /\ CompRest

\* containerConfig.Cmd and the bind mount of the flow
CompCompose ==
    /\ comp.phase = "compose"
    /\ IF Panics(comp.flow, comp.lang, comp.entry)
       THEN comp' = [comp EXCEPT !.phase = "failed", !.error = "panic"]
       ELSE comp' = [comp EXCEPT
              !.phase = "create",
              !.Cmd = CASE comp.flow = "run_project" ->
                             ComposeProject(comp.lang, comp.dir, comp.entry)
                        [] comp.flow \in {"run_project_010", "run_project_main"} ->
                             ComposeProjectElse(comp.flow, comp.lang, comp.dir, comp.entry)
                        [] comp.flow = "run_code" -> ComposeCode(comp.lang)
                        [] OTHER -> ComposeWithDeps(comp.lang),
              !.mount = CASE comp.flow = "run_code" ->
                               CodeMount(comp.lang, ToValidUTF8(comp.code))
                          [] comp.flow = "run_with_deps" ->
                               DepsMount(comp.lang, comp.code, comp.deps)
                          [] OTHER -> NoMount,
              !.Binds = IF comp.flow \in ProjectFlows THEN <<ProjectBind>>
                        ELSE <<TmpBind>>]
    /\ registry' = IF /\ ~Panics(comp.flow, comp.lang, comp.entry)
                      /\ comp.flow \in {"run_project_010", "run_project_main"}
                      /\ comp.lang = "nodejs"
                   THEN NodeCmdStores(comp.flow, comp.entry, registry)
                   ELSE registry
    /\ CompOthers

\* cli.ContainerCreate and cli.ContainerStart
CompCreateStart ==
    /\ comp.phase = "create"
    /\ \E ok \in BOOLEAN :
        IF ok
        THEN comp' = [comp EXCEPT !.phase = "running",
                                  !.ops = @ \o <<[op |-> "create", ok |-> TRUE],
                                                 [op |-> "start", ok |-> TRUE]>>,
                                  !.steps = StepsOf(comp.Cmd)]
        ELSE comp' = [comp EXCEPT !.phase = "failed",
                                  !.ops = Append(@, [op |-> "create", ok |-> FALSE]),
                                  !.error = "failed to create container"]
    /\ CompRest

\* the container runs the next command of its Cmd
CompStep ==
    /\ comp.phase = "running"
    /\ \E exitCode \in {0, 1}, write \in AppWrites :
        LET ran == Append(comp.ran, [step |-> comp.steps[Len(comp.ran) + 1].words,
                                     exit |-> exitCode])
        IN comp' = [comp EXCEPT
               !.ran = ran,
               !.host = IF comp.flow \in ProjectFlows
                        THEN WriteUnderApp(comp.Binds[1], @, write) ELSE @,
               !.phase = IF Len(ran) < Len(comp.steps)
                            /\ RunsNext(comp.steps[Len(ran) + 1].sep, exitCode)
                         THEN "running" ELSE "exited"]
    /\ CompRest

\* the call has ended and the server takes the next request; the registry
\* is a package variable and stays as the call left it
CompReturn ==
    /\ comp.phase \in {"exited", "failed"}
    /\ comp' = NoComp
    /\ CompRest

ComposeNext ==
    \/ CompRequest \/ CompLookup \/ CompPull \/ CompCompose
    \/ CompCreateStart \/ CompStep \/ CompReturn

ComposeSpec == Init /\ [][ComposeNext]_vars

\* ========================================================= file transfer
\* a path is the sequence of its components
TmpDir == <<"tmp">>
AppDir == <<"app">>

\* filepath.Base
Base(path) == path[Len(path)]

\* permission bits of a file mode: os.FileMode.Perm, and os.FileMode(header.Mode)
Perm(mode) == mode % 512

\* bound: entries of an archive the engine returns
MaxEntries == 2

NoFile == [type |-> "absent"]
RegFile(bytes, mode) == [type |-> "reg", bytes |-> bytes, mode |-> mode]

\* local source directories: the root (rel "." is the empty path) and what
\* is below it
LocalSrcDir == <<"home", "proj">>
Root == [rel |-> <<>>, type |-> "dir", bytes |-> "", mode |-> 493]
SrcDirs ==
    {{Root, [rel |-> <<"a.txt">>, type |-> "reg", bytes |-> "new", mode |-> 420]},
     {Root, [rel |-> <<"a.txt">>, type |-> "reg", bytes |-> "new", mode |-> 493],
      [rel |-> <<"sub">>, type |-> "dir", bytes |-> "", mode |-> 493],
      [rel |-> <<"sub", "b.txt">>, type |-> "reg", bytes |-> "nested", mode |-> 384]}}

\* the lexical order of the file names in use
NameRank(name) ==
    CASE name = "a.txt" -> 1
      [] name = "b.txt" -> 2
      [] OTHER -> 3

\* p comes before q in a walk: p is a proper prefix of q, or the first
\* component in which they differ is smaller in p
RECURSIVE WalksBefore(_, _)
WalksBefore(p, q) ==
    IF q = <<>> THEN FALSE
    ELSE IF p = <<>> THEN TRUE
    ELSE IF Head(p) = Head(q) THEN WalksBefore(Tail(p), Tail(q))
    ELSE NameRank(Head(p)) < NameRank(Head(q))

\* filepath.Walk: the root first, every directory before its entries, the
\* entries of a directory in lexical order
Walk(dir) ==
    CHOOSE visit \in [1..Cardinality(dir) -> dir] :
        \A i, j \in 1..Cardinality(dir) :
            i < j => WalksBefore(visit[i].rel, visit[j].rel)

SrcTrees == {Walk(dir) : dir \in SrcDirs}

\* dest_dir: absent, absolute or relative
DestArgs == {[given |-> FALSE, abs |-> FALSE, parts |-> <<>>],
             [given |-> TRUE, abs |-> TRUE, parts |-> <<"work">>],
             [given |-> TRUE, abs |-> FALSE, parts |-> <<"out">>]}

\* CopyProject: destDir
DestDir(arg, src) ==
    IF ~arg.given THEN AppDir \o <<Base(src)>>
    ELSE IF arg.abs THEN arg.parts ELSE AppDir \o arg.parts

\* CopyProject: tarFileName
TarFileName(src) == TmpDir \o <<"project_" \o Base(src) \o ".tar">>

\* createTarArchive: relPath == "." is skipped
SkipsNothing(relPath) == FALSE
SkipsRoot(relPath) == relPath = <<>>

\* createTarArchive: a header named base/rel for every entry the walk visits
\* below the root, with the contents of regular files
RECURSIVE createTarArchive(_, _)
createTarArchive(src, tree) ==
    IF tree = <<>> THEN <<>>
    ELSE IF SkipsRoot(Head(tree).rel) THEN createTarArchive(src, Tail(tree))
    ELSE <<[name |-> <<Base(src)>> \o Head(tree).rel, type |-> Head(tree).type,
            bytes |-> IF Head(tree).type = "reg" THEN Head(tree).bytes ELSE "",
            mode |-> Perm(Head(tree).mode)]>>
         \o createTarArchive(src, Tail(tree))

\* a file system: a set of files, at most one for a path
Lookup(fs, path) ==
    IF \E f \in fs : f.path = path THEN CHOOSE f \in fs : f.path = path
    ELSE [path |-> path, type |-> "absent"]

\* the engine (PUT /containers/id/archive) and tar -x: the entries of an
\* archive are created below a directory
RECURSIVE ExtractAt(_, _, _)
ExtractAt(fs, dir, archive) ==
    IF archive = <<>> THEN fs
    ELSE ExtractAt({g \in fs : g.path # dir \o Head(archive).name}
                     \cup {[path |-> dir \o Head(archive).name,
                             type |-> Head(archive).type,
                             bytes |-> Head(archive).bytes,
                             mode |-> Head(archive).mode]},
                   dir, Tail(archive))

\* file systems of the container before the call: empty, or with an archive
\* file left in /tmp by an earlier transfer
ContainerFiles ==
    {{}, {[path |-> TarFileName(LocalSrcDir), type |-> "reg", bytes |-> "tar",
           mode |-> 420,
           holds |-> <<[name |-> <<"proj", "a.txt">>, type |-> "reg",
                        bytes |-> "old", mode |-> 420]>>]}}

ContainerStates == {"running", "exited", "absent"}

\* tar -xf tarFilePath -C destPath: <<exit code, file system>>
TarXf(fs, tarFilePath, destPath) ==
    IF Lookup(fs, tarFilePath).type = "reg" /\ "holds" \in DOMAIN Lookup(fs, tarFilePath)
    THEN <<0, ExtractAt(fs, destPath, Lookup(fs, tarFilePath).holds)>>
    ELSE <<2, fs>>

XferRest == UNCHANGED <<containers, callVars, execVars, waitVars, histVars,
                        sent, ctxDone, comp, scan, registry, put, poll, pair>>

Returned(x, status, msg) == [x EXCEPT !.phase = "done", !.status = status, !.msg = msg]

\* the call asked the engine for `op`, which succeeded or failed
Asked(x, op, ok) == [x EXCEPT !.ops = Append(@, [op |-> op, ok |-> ok])]

\* copy_project is called; the handler checks the source directory
CopyProject ==
    /\ xfer.phase = "idle"
    /\ \E tree \in SrcTrees, srcKind \in {"dir", "file", "absent"}, arg \in DestArgs,
          fs \in ContainerFiles, state \in ContainerStates :
        LET x == [phase |-> "copy", op |-> "copy_project", state |-> state,
                  fs |-> fs, tree |-> tree, srcKind |-> srcKind,
                  destDir |-> DestDir(arg, LocalSrcDir),
                  archive |-> <<>>, stat |-> [isDir |-> FALSE], conform |-> FALSE,
                  srcPath |-> <<>>, before |-> NoFile, dest |-> NoFile,
                  ops |-> <<>>, status |-> "", msg |-> ""]
        IN xfer' = CASE srcKind = "absent" ->
                          Returned(x, "error_text", "Error accessing source directory")
                     [] srcKind = "file" ->
                          Returned(x, "error_text", "local_src_dir must be a directory")
                     [] OTHER ->
                          [x EXCEPT !.archive = createTarArchive(LocalSrcDir, tree)]
    /\ XferRest

\* copyTarToContainer: inspect, mkdir -p /tmp (an exec is created in a
\* running container only), cli.CopyToContainer
copyTarToContainer ==
    /\ xfer.phase = "copy" /\ xfer.op = "copy_project"
    /\ \E ok \in BOOLEAN :
        xfer' = CASE xfer.state # "running" \/ ~ok ->
                       Asked(Returned(xfer, "error_text", "Error copying to container"),
                             "copyInto", FALSE)
                  [] OTHER ->
                       Asked([xfer EXCEPT !.phase = "extract",
                                   !.fs = ExtractAt(xfer.fs, TmpDir, xfer.archive)],
                             "copyInto", TRUE)
    /\ XferRest

\* extractTarInContainer, rm tarFileName and the result: a cleanup that
\* fails is printed and the call goes on to report success
extractTarInContainer ==
    /\ xfer.phase = "extract"
    /\ LET got == TarXf(xfer.fs, TarFileName(LocalSrcDir), xfer.destDir)
       IN IF got[1] # 0
          THEN xfer' = Asked(Returned(xfer, "error_text",
                                      "Error extracting archive in container"),
                             "exec tar", FALSE)
          ELSE \E rmOk \in BOOLEAN :
                 xfer' = Asked(Asked([Returned(xfer, "ok", "Successfully copied")
                                        EXCEPT !.fs = IF rmOk
                                                      THEN {f \in got[2] :
                                                              f.path # TarFileName(LocalSrcDir)}
                                                      ELSE got[2]],
                                     "exec tar", TRUE),
                               "exec rm", rmOk)
    /\ XferRest

\* container_src_path, absolute or relative to /app
SrcArgs == {[abs |-> TRUE, parts |-> <<"tmp", "proj", "a.txt">>],
            [abs |-> FALSE, parts |-> <<"proj", "proj", "a.txt">>],
            [abs |-> TRUE, parts |-> <<"tmp", "proj">>]}

ContainerSrcPath(arg) == IF arg.abs THEN arg.parts ELSE AppDir \o arg.parts

\* the local destination file before the call
DestBefore == {NoFile, RegFile("local", 384)}

\* entries an archive may hold
EntryKinds ==
    {[name |-> <<"f">>, type |-> "reg", bytes |-> "remote", mode |-> 420],
     [name |-> <<"d">>, type |-> "dir", bytes |-> "", mode |-> 493],
     [name |-> <<"l">>, type |-> "symlink", bytes |-> "", mode |-> 511]}

Archives == UNION {[1..n -> EntryKinds] : n \in 0..MaxEntries}

\* what GET /containers/id/archive answers for a regular file of the container
ArchiveOf(fs, path) ==
    <<[name |-> <<Base(path)>>, type |-> "reg", bytes |-> Lookup(fs, path).bytes,
       mode |-> Lookup(fs, path).mode]>>

\* copy_file_from_sandbox is called, on a fresh container or after copy_project
CopyFileFromContainer ==
    /\ \/ xfer.phase = "idle"
       \/ xfer.phase = "done" /\ xfer.op = "copy_project" /\ xfer.srcKind = "dir"
    /\ \E arg \in SrcArgs, before \in DestBefore :
        \E state \in IF xfer.phase = "idle" THEN ContainerStates ELSE {xfer.state} :
          xfer' = [phase |-> "fetch", op |-> "copy_file_from_sandbox",
                   state |-> state,
                   fs |-> IF xfer.phase = "idle" THEN {} ELSE xfer.fs,
                   tree |-> IF xfer.phase = "idle" THEN <<>> ELSE xfer.tree,
                   srcKind |-> "dir",
                   destDir |-> IF xfer.phase = "idle" THEN <<>> ELSE xfer.destDir,
                   archive |-> <<>>, stat |-> [isDir |-> FALSE], conform |-> FALSE,
                   srcPath |-> ContainerSrcPath(arg),
                   before |-> before, dest |-> before,
                   ops |-> <<>>, status |-> "", msg |-> ""]
    /\ XferRest

\* the checks of copyFileFromContainer between cli.CopyFromContainer and os.Create
AcceptsAnyEntry(stat, archive) == Len(archive) > 0
Accepts(stat, archive) ==
    /\ ~stat.isDir
    /\ Len(archive) > 0
    /\ archive[1].type = "reg"

RejectMessage(stat, archive) ==
    CASE stat.isDir -> "source path is a directory, only files are supported"
      [] Len(archive) = 0 -> "failed to read tar header"
      [] OTHER -> "source is not a regular file"

\* cli.CopyFromContainer and the checks of the answer
copyFileFromContainer ==
    /\ xfer.phase = "fetch"
    /\ \/ xfer' = Asked(Returned(xfer, "error_text", "failed to copy from container"),
                       "copyFrom", FALSE)
       \/ /\ xfer.state # "absent"
          /\ \E resp \in [isDir : BOOLEAN, archive : Archives, conform : {FALSE}]
                   \cup (IF Lookup(xfer.fs, xfer.srcPath).type = "reg"
                         THEN {[isDir |-> FALSE, conform |-> TRUE,
                                archive |-> ArchiveOf(xfer.fs, xfer.srcPath)]}
                         ELSE {}) :
              LET x == Asked([xfer EXCEPT !.stat = [isDir |-> resp.isDir],
                                          !.archive = resp.archive,
                                          !.conform = resp.conform],
                             "copyFrom", TRUE)
              IN xfer' = IF Accepts(x.stat, x.archive)
                         THEN [x EXCEPT !.phase = "create"]
                         ELSE Returned(x, "error_text",
                                       RejectMessage(x.stat, x.archive))
    /\ XferRest

\* os.Create: a new file gets 0666 less the umask, an existing one is truncated
Create(file) ==
    IF file.type = "reg" THEN RegFile("", file.mode) ELSE RegFile("", 420)

\* os.Create(destPath)
CreateDest ==
    /\ xfer.phase = "create"
    /\ \E ok \in BOOLEAN :
        xfer' = IF ok THEN [xfer EXCEPT !.phase = "write", !.dest = Create(xfer.dest)]
                ELSE Returned(xfer, "error_text", "failed to create destination file")
    /\ XferRest

\* io.Copy(destFile, tr) and os.Chmod(destPath, os.FileMode(header.Mode))
WriteDest ==
    /\ xfer.phase = "write"
    /\ xfer' = [Returned(xfer, "ok", "Successfully copied")
                  EXCEPT !.dest = RegFile(xfer.archive[1].bytes,
                                          Perm(xfer.archive[1].mode))]
    /\ XferRest

CopyNext ==
    \/ CopyProject \/ copyTarToContainer \/ extractTarInContainer
    \/ CopyFileFromContainer \/ copyFileFromContainer \/ CreateDest \/ WriteDest

CopySpec == Init /\ [][CopyNext]_vars

\* ============================================ the destination directory
\* copy_file and the first half of copy_project: mkdir -p of the directory
\* the archive goes to, then cli.CopyToContainer. The mkdir is a process of
\* the container, which runs beside the handler.
PutRest == UNCHANGED <<containers, callVars, execVars, waitVars, histVars,
                       sent, ctxDone, comp, xfer, scan, registry, poll, pair>>

PutReturned(x, status, msg) ==
    [x EXCEPT !.phase = "done", !.status = status, !.msg = msg]

\* the destination directory before the call: there already, or not there
\* and either creatable or not (a path component is a file, say)
DirCases == {[exists |-> TRUE, canMake |-> TRUE],
             [exists |-> FALSE, canMake |-> TRUE],
             [exists |-> FALSE, canMake |-> FALSE]}

\* filepath.Dir
Dir(path) == SubSeq(path, 1, Len(path) - 1)

LocalSrcFile == <<"home", "notes.txt">>

\* dest_path: absent, absolute or relative
DestPathArgs == {[given |-> FALSE, abs |-> FALSE, parts |-> <<>>],
                 [given |-> TRUE, abs |-> TRUE, parts |-> <<"work", "n.txt">>],
                 [given |-> TRUE, abs |-> FALSE, parts |-> <<"out", "n.txt">>]}

\* CopyFile: destPath
DestPath(arg, src) ==
    IF ~arg.given THEN AppDir \o <<Base(src)>>
    ELSE IF arg.abs THEN arg.parts ELSE AppDir \o arg.parts

PutCall(op, state, dir, destDir) ==
    [phase |-> "mkdir", op |-> op, state |-> state, destDir |-> destDir,
     dirExists |-> dir.exists, canMake |-> dir.canMake,
     mk |-> "none", placed |-> FALSE, mkAtPlace |-> "none",
     status |-> "", msg |-> ""]

\* CopyFile: the checks of local_src_file
PutCopyFile ==
    /\ put.phase = "idle"
    /\ \E srcKind \in {"reg", "dir", "absent"}, state \in {"running", "exited", "absent"},
          dir \in DirCases, arg \in DestPathArgs :
        LET call == PutCall("copy_file", state, dir, Dir(DestPath(arg, LocalSrcFile)))
        IN put' = CASE srcKind = "absent" ->
                         PutReturned([call EXCEPT !.destDir = <<>>], "error_text",
                                     "Error accessing source file")
                    [] srcKind = "dir" ->
                         PutReturned([call EXCEPT !.destDir = <<>>], "error_text",
                                     "local_src_file must be a file, not a directory")
                    [] OTHER -> call
    /\ PutRest

\* createDirectoryInContainer: ContainerExecCreate and ContainerExecStart of
\* mkdir -p; it returns once the command is started
createDirectoryInContainer ==
    /\ put.phase = "mkdir" /\ put.op = "copy_file"
    /\ \E ok \in BOOLEAN :
        put' = IF put.state = "running" /\ ok
               THEN [put EXCEPT !.phase = "copy", !.mk = "running"]
               ELSE PutReturned(put, "error_text", "Error creating destination directory")
    /\ PutRest

\* copyTarToContainer of copy_project: ContainerInspect
PutCopyProject ==
    /\ put.phase = "idle"
    /\ \E state \in {"running", "exited", "absent"}, dir \in DirCases :
        put' = IF state = "absent"
               THEN PutReturned(PutCall("copy_project", state, dir, TmpDir),
                                "error_text", "Error copying to container")
               ELSE PutCall("copy_project", state, dir, TmpDir)
    /\ PutRest

\* executeCommandAndWait of mkdir -p: ContainerExecCreate and ContainerExecStart
StartMkdir ==
    /\ put.phase = "mkdir" /\ put.op = "copy_project"
    /\ \E ok \in BOOLEAN :
        put' = IF put.state = "running" /\ ok
               THEN [put EXCEPT !.phase = "wait", !.mk = "running"]
               ELSE PutReturned(put, "error_text", "Error copying to container")
    /\ PutRest

\* executeCommandAndWait of mkdir -p: the loop over ContainerExecInspect
\* leaves when an inspect fails or the command has stopped running
AwaitMkdir ==
    /\ put.phase = "wait"
    /\ \E inspectOk \in BOOLEAN :
        /\ ~inspectOk \/ put.mk # "running"
        /\ put' = IF inspectOk /\ put.mk = "exited0"
                  THEN [put EXCEPT !.phase = "copy"]
                  ELSE PutReturned(put, "error_text", "Error copying to container")
    /\ PutRest

\* the container runs mkdir -p
MkdirRuns ==
    /\ put.phase # "idle" /\ put.mk = "running"
    /\ put' = IF put.dirExists \/ put.canMake
              THEN [put EXCEPT !.mk = "exited0", !.dirExists = TRUE]
              ELSE [put EXCEPT !.mk = "exited1"]
    /\ PutRest

\* cli.CopyToContainer: the engine extracts the archive into a directory
\* that is there
PlaceArchive ==
    /\ put.phase = "copy"
    /\ \E ok \in BOOLEAN :
        put' = IF ok /\ put.dirExists
               THEN [PutReturned(put, "ok", "Successfully copied")
                       EXCEPT !.placed = TRUE, !.mkAtPlace = put.mk]
               ELSE PutReturned(put, "error_text",
                                IF put.op = "copy_file"
                                THEN "Error copying file to container"
                                ELSE "Error copying to container")
    /\ PutRest

PutNext ==
    \/ PutCopyFile \/ createDirectoryInContainer
    \/ PutCopyProject \/ StartMkdir \/ AwaitMkdir
    \/ MkdirRuns \/ PlaceArchive

PutSpec == Init /\ [][PutNext]_vars

\* ================================================= the exec polling loops
\* executeCommandAndWait and writeFileToContainer: an exec is created and
\* started, then a loop inspects it every 100 ms until it has stopped.
PollRest == UNCHANGED <<containers, callVars, execVars, waitVars, histVars,
                        sent, ctxDone, comp, xfer, scan, registry, put, pair>>

\* inspections of a command that is still running, per call
MaxPolls == 3

PollFns == {"executeCommandAndWait", "writeFileToContainer"}

PollReturned(x, err) == [x EXCEPT !.phase = "done", !.err = err]

\* a function with a polling loop is called
PollCall ==
    /\ poll.phase = "idle"
    /\ \E fn \in PollFns :
        poll' = [phase |-> "create", fn |-> fn, running |-> FALSE, exitCode |-> 0,
                 cancelled |-> FALSE, polls |-> 0, looped |-> FALSE,
                 inspectFailed |-> FALSE, err |-> ""]
    /\ PollRest

\* the request context is cancelled while the function runs
PollCancel ==
    /\ poll.phase \notin {"idle", "done"} /\ ~poll.cancelled
    /\ poll' = [poll EXCEPT !.cancelled = TRUE]
    /\ PollRest

\* an engine call made with a cancelled context fails
EngineAnswers(ok) == ok /\ ~poll.cancelled

\* cli.ContainerExecCreate
PollExecCreate ==
    /\ poll.phase = "create"
    /\ \E ok \in BOOLEAN :
        poll' = IF EngineAnswers(ok)
                THEN [poll EXCEPT !.phase = IF poll.fn = "executeCommandAndWait"
                                            THEN "start" ELSE "attach"]
                ELSE PollReturned(poll, "failed to create exec")
    /\ PollRest

\* executeCommandAndWait: cli.ContainerExecStart
PollExecStart ==
    /\ poll.phase = "start"
    /\ \E ok \in BOOLEAN :
        poll' = IF EngineAnswers(ok)
                THEN [poll EXCEPT !.phase = "loop", !.looped = TRUE, !.running = TRUE]
                ELSE PollReturned(poll, "failed to start exec")
    /\ PollRest

\* writeFileToContainer: cli.ContainerExecAttach, which starts the command
PollExecAttach ==
    /\ poll.phase = "attach"
    /\ \E ok \in BOOLEAN :
        poll' = IF EngineAnswers(ok)
                THEN [poll EXCEPT !.phase = "write", !.running = TRUE]
                ELSE PollReturned(poll, "failed to attach to exec")
    /\ PollRest

\* writeFileToContainer: io.Copy to the command's stdin and CloseWrite
PollWriteStdin ==
    /\ poll.phase = "write"
    /\ \E ok \in BOOLEAN :
        poll' = IF ok THEN [poll EXCEPT !.phase = "loop", !.looped = TRUE]
                ELSE PollReturned(poll, "failed to write content to container")
    /\ PollRest

\* the exec'd command stops running
CommandStops ==
    /\ poll.phase # "idle" /\ poll.running
    /\ \E code \in {0, 1, 2} :
        poll' = [poll EXCEPT !.running = FALSE, !.exitCode = code]
    /\ PollRest

\* one pass of the loop after ContainerExecInspect has answered
LoopIgnoresExitCode(inspectOk, running, exitCode) ==
    CASE ~inspectOk -> "failed to inspect exec"
      [] running -> "sleep"
      [] OTHER -> ""
LoopPass(inspectOk, running, exitCode) ==
    CASE ~inspectOk -> "failed to inspect exec"
      [] running -> "sleep"
      [] exitCode # 0 -> "command exited with code"
      [] OTHER -> ""

\* for { ContainerExecInspect; ...; time.Sleep(100 * time.Millisecond) }
PollInspect ==
    /\ poll.phase = "loop"
    /\ \E ok \in BOOLEAN :
        LET pass == LoopPass(EngineAnswers(ok), poll.running, poll.exitCode)
        IN IF pass = "sleep"
           THEN /\ poll.polls < MaxPolls
                /\ poll' = [poll EXCEPT !.polls = @ + 1]
           ELSE poll' = [PollReturned(poll, pass)
                           EXCEPT !.inspectFailed = ~EngineAnswers(ok)]
    /\ PollRest

PollNext ==
    \/ PollCall \/ PollCancel \/ PollExecCreate \/ PollExecStart
    \/ PollExecAttach \/ PollWriteStdin \/ CommandStops \/ PollInspect

PollSpec == Init /\ [][PollNext]_vars

\* the next inspection ends the loop: the command has stopped running, or
\* the request was cancelled and the inspection will fail
PollAnswered == poll.phase = "loop" /\ (~poll.running \/ poll.cancelled)

\* The handler's goroutine keeps running: the sleep ends and the loop
\* inspects again.
FairPollSpec == PollSpec /\ WF_vars(PollAnswered /\ PollInspect)

\* ========================================== two copy_project calls at once
\* Two handlers run CopyProject for one container, each from its own source
\* directory; both directories are named proj. The engine and the
\* container's commands work on one file system, a step at a time.
PairRest == UNCHANGED <<containers, callVars, execVars, waitVars, histVars,
                        sent, ctxDone, comp, xfer, scan, registry, put, poll>>

Callers == {1, 2}

\* local_src_dir of each call
SrcOf(i) == IF i = 1 THEN LocalSrcDir ELSE <<"srv", "proj">>

\* what each source directory holds
TreeOf(i) ==
    Walk({Root, [rel |-> <<"a.txt">>, type |-> "reg",
                 bytes |-> IF i = 1 THEN "one" ELSE "two", mode |-> 420]})

\* dest_dir of each call: the calls never name the same destination
DestArgsOf(i) ==
    IF i = 1 THEN {arg \in DestArgs : ~arg.given \/ arg.abs}
    ELSE {arg \in DestArgs : arg.given /\ ~arg.abs}

NoCall == [at |-> "none", destDir |-> <<>>, archive |-> <<>>, rmOk |-> FALSE,
           status |-> "", msg |-> ""]

\* the container the two calls will name, with its files
PairSandbox ==
    /\ pair.phase = "idle"
    /\ \E fs \in ContainerFiles :
        pair' = [phase |-> "calls", fs |-> fs, call |-> [i \in Callers |-> NoCall]]
    /\ PairRest

\* CopyProject of call i, past the checks of its source directory and with
\* its archive built; the other call may be anywhere
PairCopyProject(i) ==
    /\ pair.phase = "calls" /\ pair.call[i].at = "none"
    /\ \E arg \in DestArgsOf(i) :
        pair' = [pair EXCEPT !.call[i] =
                    [NoCall EXCEPT !.at = "copy",
                                   !.destDir = DestDir(arg, SrcOf(i)),
                                   !.archive = createTarArchive(SrcOf(i), TreeOf(i))]]
    /\ PairRest

PairReturned(x, i, status, msg) ==
    [x EXCEPT !.call[i].at = "done", !.call[i].status = status, !.call[i].msg = msg]

\* copyTarToContainer(ctx, containerIDOrName, "/tmp", tarBuffer) of call i
PairCopyTar(i) ==
    /\ pair.phase = "calls" /\ pair.call[i].at = "copy"
    /\ pair' = [pair EXCEPT !.call[i].at = "extract",
                            !.fs = ExtractAt(pair.fs, TmpDir, pair.call[i].archive)]
    /\ PairRest

\* extractTarInContainer(ctx, containerIDOrName, tarFileName, destDir) of call i
PairExtract(i) ==
    /\ pair.phase = "calls" /\ pair.call[i].at = "extract"
    /\ LET got == TarXf(pair.fs, TarFileName(SrcOf(i)), pair.call[i].destDir)
       IN pair' = IF got[1] # 0
                  THEN PairReturned(pair, i, "error_text",
                                    "Error extracting archive in container")
                  ELSE [pair EXCEPT !.call[i].at = "cleanup", !.fs = got[2]]
    /\ PairRest

\* rm tarFileName of call i, and its result: a failed rm is only printed
PairCleanup(i) ==
    /\ pair.phase = "calls" /\ pair.call[i].at = "cleanup"
    /\ pair' = [PairReturned(pair, i, "ok", "Successfully copied")
                  EXCEPT !.call[i].rmOk =
                             Lookup(pair.fs, TarFileName(SrcOf(i))).type = "reg",
                         !.fs = {f \in pair.fs : f.path # TarFileName(SrcOf(i))}]
    /\ PairRest

PairNext ==
    \/ PairSandbox
    \/ \E i \in Callers : PairCopyProject(i)
    \/ \E i \in Callers : PairCopyTar(i)
    \/ \E i \in Callers : PairExtract(i)
    \/ \E i \in Callers : PairCleanup(i)

PairSpec == Init /\ [][PairNext]_vars

\* ================================================== dependency detection
\* Source text is a sequence of tokens; a token is a sequence of atoms, so
\* that a module path keeps its "/" and "@" and a pattern's character class
\* can be decided atom by atom.
W(a) == <<a>>
SP == W(" ")
NL == W("\n")
SQ == W("'")
DQ == W("\"")
Slash == "/"
Quotes == {SQ, DQ}

\* atoms that \w+ matches whole
WordAtoms == {"import", "from", "as", "os", "requests", "PIL", "Image",
              "datetime", "numpy", "np", "x", "1", "__import__", "d3", "axios"}

At(s, i) == IF i \in 1..Len(s) THEN s[i] ELSE <<>>
IsWord(s, i) == Len(At(s, i)) = 1 /\ At(s, i)[1] \in WordAtoms
HasSlash(t) == \E k \in 1..Len(t) : t[k] = Slash

\* (?m)^ : the start of the text or the position after a newline
AtLineStart(s, i) == i = 1 \/ At(s, i - 1) = NL

\* \s+ from position i: the first position that holds no white space
RECURSIVE WsEnd(_, _)
WsEnd(s, i) == IF At(s, i) \in {SP, NL} THEN WsEnd(s, i + 1) ELSE i

\* a negated class, repeated: the first position from i that holds a token of stop
RECURSIVE Until(_, _, _)
Until(s, i, stop) ==
    IF i > Len(s) \/ s[i] \in stop THEN i ELSE Until(s, i + 1, stop)

\* [^/]* from position i: the first position whose token holds a slash
RECURSIVE UntilSlash(_, _)
UntilSlash(s, i) == IF i > Len(s) \/ HasSlash(s[i]) THEN i ELSE UntilSlash(s, i + 1)

\* the text of the tokens a..b-1
RECURSIVE Concat(_, _, _)
Concat(s, a, b) == IF a >= b THEN <<>> ELSE s[a] \o Concat(s, a + 1, b)

Match(end, cap) == {[end |-> end, cap |-> cap]}

\* ['"]([^'"]+)['"] at position i, then the tokens of after
Quoted(s, i, qs, after) ==
    LET j == Until(s, i + 1, qs)
    IN  IF /\ At(s, i) \in qs /\ j > i + 1 /\ j <= Len(s)
           /\ \A k \in 1..Len(after) : At(s, j + k) = after[k]
        THEN Match(j + 1 + Len(after), Concat(s, i + 1, j))
        ELSE {}

\* ^import\s+(\w+)
pythonImportRe(s, i) ==
    LET j == WsEnd(s, i + 1)
    IN  IF AtLineStart(s, i) /\ At(s, i) = W("import") /\ j > i + 1 /\ IsWord(s, j)
        THEN Match(j + 1, s[j]) ELSE {}

\* ^from\s+(\w+)\s+import
pythonFromRe(s, i) ==
    LET j == WsEnd(s, i + 1)
        k == WsEnd(s, j + 1)
    IN  IF /\ AtLineStart(s, i) /\ At(s, i) = W("from") /\ j > i + 1 /\ IsWord(s, j)
           /\ k > j + 1 /\ At(s, k) = W("import")
        THEN Match(k + 1, s[j]) ELSE {}

\* __import__\(['"](\w+)['"]\)
pythonDynamicRe(s, i) ==
    IF /\ At(s, i) = W("__import__") /\ At(s, i + 1) = W("(")
       /\ At(s, i + 2) \in Quotes /\ IsWord(s, i + 3)
       /\ At(s, i + 4) \in Quotes /\ At(s, i + 5) = W(")")
    THEN Match(i + 6, s[i + 3]) ELSE {}

\* require\(['"]([^'"]+)['"]\)
nodeRequireRe(s, i) ==
    IF At(s, i) = W("require") /\ At(s, i + 1) = W("(")
    THEN Quoted(s, i + 2, Quotes, <<W(")")>>) ELSE {}

\* (?:\{[^}]*\}|\*\s+as\s+\w+|\w+) at position i: the position after it, 0 if none
ImportClause(s, i) ==
    LET close == Until(s, i + 1, {W("}")})
        a == WsEnd(s, i + 1)
        n == WsEnd(s, a + 1)
    IN  IF At(s, i) = W("{") THEN (IF close <= Len(s) THEN close + 1 ELSE 0)
        ELSE IF At(s, i) = W("*")
             THEN (IF a > i + 1 /\ At(s, a) = W("as") /\ n > a + 1 /\ IsWord(s, n)
                   THEN n + 1 ELSE 0)
        ELSE IF IsWord(s, i) THEN i + 1 ELSE 0

\* import\s+(?:...)\s+from\s+['"]([^'"]+)['"]
nodeImportRe(s, i) ==
    LET j == WsEnd(s, i + 1)
        c == ImportClause(s, j)
        f == WsEnd(s, c)
        q == WsEnd(s, f + 1)
    IN  IF /\ At(s, i) = W("import") /\ j > i + 1 /\ c > 0
           /\ f > c /\ At(s, f) = W("from") /\ q > f + 1
        THEN Quoted(s, q, Quotes, <<>>) ELSE {}

\* import\(['"]([^'"]+)['"]\)
nodeDynamicRe(s, i) ==
    IF At(s, i) = W("import") /\ At(s, i + 1) = W("(")
    THEN Quoted(s, i + 2, Quotes, <<W(")")>>) ELSE {}

\* ^import\s+"([^"]+)"
goSingleImportRe(s, i) ==
    LET j == WsEnd(s, i + 1)
    IN  IF AtLineStart(s, i) /\ At(s, i) = W("import") /\ j > i + 1
        THEN Quoted(s, j, {DQ}, <<>>) ELSE {}

\* ^[^/]*"([^"]+)" : the class also takes newlines and quotes, and it is
\* greedy, so the quote that opens the capture is the last one before the
\* first slash that a closing quote follows
goGroupImportRe(s, i) ==
    LET opens == {j \in i..(UntilSlash(s, i) - 1) : Quoted(s, j, {DQ}, <<>>) # {}}
    IN  IF AtLineStart(s, i) /\ opens # {}
        THEN Quoted(s, CHOOSE j \in opens : \A k \in opens : k <= j, {DQ}, <<>>)
        ELSE {}

MatchAt(re, s, i) ==
    CASE re = "pythonImportRe" -> pythonImportRe(s, i)
      [] re = "pythonFromRe" -> pythonFromRe(s, i)
      [] re = "pythonDynamicRe" -> pythonDynamicRe(s, i)
      [] re = "nodeRequireRe" -> nodeRequireRe(s, i)
      [] re = "nodeImportRe" -> nodeImportRe(s, i)
      [] re = "nodeDynamicRe" -> nodeDynamicRe(s, i)
      [] re = "goSingleImportRe" -> goSingleImportRe(s, i)
      [] re = "goGroupImportRe" -> goGroupImportRe(s, i)

\* FindAllStringSubmatch(code, -1): the captures of the successive
\* non-overlapping leftmost matches from position i
RECURSIVE FindAllStringSubmatch(_, _, _)
FindAllStringSubmatch(re, s, i) ==
    IF i > Len(s) THEN {}
    ELSE IF MatchAt(re, s, i) = {} THEN FindAllStringSubmatch(re, s, i + 1)
    ELSE LET m == CHOOSE x \in MatchAt(re, s, i) : TRUE
         IN  {m.cap} \cup FindAllStringSubmatch(re, s, m.end)

pythonStdLib == {W("os"), W("sys"), W("datetime"), W("json"), W("math"),
                 W("random"), W("re"), W("time"), W("collections"), W("pathlib")}
nodeStdLib == {W("fs"), W("path"), W("http"), W("https"), W("crypto"),
               W("buffer"), W("stream"), W("util"), W("events"), W("os")}
goStdLib == {W("fmt"), W("os"), W("io"), W("strings"), W("time"),
             <<"net", Slash, "http">>, <<"encoding", Slash, "json">>,
             <<"path", Slash, "filepath">>}

pythonPkgMap(pkg) == IF pkg = W("PIL") THEN W("pillow") ELSE pkg

\* strings.Split(path, "/")
RECURSIVE Split(_)
Split(path) ==
    LET k == Until(path, 1, {Slash})
    IN  IF k > Len(path) THEN <<path>>
        ELSE <<SubSeq(path, 1, k - 1)>> \o Split(SubSeq(path, k + 1, Len(path)))

\* a reduction that drops everything after the first slash
FirstSegmentOnly(path) == Split(path)[1]

getBasePackage(path) ==
    IF Len(path) > 0 /\ path[1] = "@" /\ Len(Split(path)) >= 2
    THEN Split(path)[1] \o <<Slash>> \o Split(path)[2]
    ELSE Split(path)[1]

\* mapToSlice makes the slice before it fills it: the result of a parse is
\* never nil, and it holds each package once (the keys of a map)
ParsePythonImports(code) ==
    {pythonPkgMap(pkg) :
        pkg \in FindAllStringSubmatch("pythonImportRe", code, 1)
                  \cup FindAllStringSubmatch("pythonFromRe", code, 1)
                  \cup FindAllStringSubmatch("pythonDynamicRe", code, 1)}
      \ pythonStdLib

ParseNodeImports(code) ==
    {getBasePackage(path) :
        path \in FindAllStringSubmatch("nodeRequireRe", code, 1)
                   \cup FindAllStringSubmatch("nodeImportRe", code, 1)
                   \cup FindAllStringSubmatch("nodeDynamicRe", code, 1)}
      \ nodeStdLib

ParseGoImports(code) ==
    (FindAllStringSubmatch("goSingleImportRe", code, 1)
       \cup FindAllStringSubmatch("goGroupImportRe", code, 1)) \ goStdLib

\* ---------------------------------------------------------- source texts
\* A line of source: its tokens, what the language makes of it (an import, a
\* comment, a statement holding a string literal, other code), and the
\* modules it imports.
Line(toks, role, mods) == [toks |-> toks, role |-> role, mods |-> mods]

Assign(name) == <<W(name), SP, W("="), SP>>
Call(fn, q, path) == <<W(fn), W("("), q, path, q, W(")")>>

PythonLines == {
    Line(<<W("import"), SP, W("os")>>, "import", {W("os")}),
    Line(<<W("import"), SP, W("requests")>>, "import", {W("requests")}),
    Line(<<W("from"), SP, W("PIL"), SP, W("import"), SP, W("Image")>>,
         "import", {W("PIL")}),
    Line(<<W("from"), SP, W("datetime"), SP, W("import"), SP, W("datetime")>>,
         "import", {W("datetime")}),
    Line(Assign("np") \o Call("__import__", SQ, W("numpy")), "import", {W("numpy")}),
    Line(<<W("#"), SP, W("import"), SP, W("requests")>>, "comment", {}),
    Line(Assign("x") \o <<DQ, W("import"), SP, W("requests"), DQ>>, "string", {}),
    Line(Assign("x") \o <<W("1"), SP, W("#"), SP>> \o Call("__import__", SQ, W("numpy")),
         "comment", {})}

ScopedPkg == <<"@", "org", Slash, "pkg">>
ScopedSub == <<"@", "org", Slash, "pkg", Slash, "sub">>
PlainSub == <<"lodash", Slash, "fp">>

NodeLines == {
    Line(Assign("fs") \o Call("require", SQ, W("fs")), "import", {W("fs")}),
    Line(Assign("express") \o Call("require", SQ, W("express")), "import",
         {W("express")}),
    Line(<<W("import"), SP, W("{"), SP, W("useState"), SP, W("}"), SP, W("from"), SP,
           SQ, W("react"), SQ>>, "import", {W("react")}),
    Line(<<W("import"), SP, W("*"), SP, W("as"), SP, W("d3"), SP, W("from"), SP,
           SQ, W("d3"), SQ>>, "import", {W("d3")}),
    Line(<<W("import"), SP, W("axios"), SP, W("from"), SP, SQ, W("axios"), SQ>>,
         "import", {W("axios")}),
    Line(Assign("mod") \o <<W("await"), SP>> \o Call("import", SQ, W("lodash")),
         "import", {W("lodash")}),
    Line(Call("require", SQ, ScopedPkg), "import", {ScopedPkg}),
    Line(Call("require", DQ, ScopedSub), "import", {ScopedSub}),
    Line(Call("require", SQ, PlainSub), "import", {PlainSub}),
    Line(<<W("//"), SP>> \o Assign("express") \o Call("require", SQ, W("express")),
         "comment", {}),
    Line(Assign("x") \o <<DQ>> \o Assign("express")
           \o Call("require", SQ, W("express")) \o <<DQ>>, "string", {})}

GinPath == <<"github.com", Slash, "gin-gonic", Slash, "gin">>
GormPath == <<"gorm.io", Slash, "gorm">>

GoLines == {
    Line(<<W("package"), SP, W("main")>>, "code", {}),
    Line(<<W("import"), SP, DQ, W("fmt"), DQ>>, "import", {W("fmt")}),
    Line(<<W("import"), SP, DQ, GinPath, DQ>>, "import", {GinPath}),
    Line(<<W("import"), SP, W("(")>>, "code", {}),
    Line(<<SP, DQ, W("fmt"), DQ>>, "import", {W("fmt")}),
    Line(<<SP, DQ, <<"net", Slash, "http">>, DQ>>, "import", {<<"net", Slash, "http">>}),
    Line(<<SP, DQ, GormPath, DQ>>, "import", {GormPath}),
    Line(<<W(")")>>, "code", {}),
    Line(<<SP, <<Slash, Slash>>, SP, DQ, GinPath, DQ>>, "comment", {}),
    Line(<<W("fmt.Println"), W("("), DQ, W("hello"), DQ, W(")")>>, "string", {})}

LinesOf(lang) ==
    CASE lang = "python" -> PythonLines
      [] lang = "nodejs" -> NodeLines
      [] lang = "go" -> GoLines

MaxLines == 3

\* the text of the lines, a newline between two lines
RECURSIVE Text(_)
Text(lines) ==
    IF lines = <<>> THEN <<>>
    ELSE IF Len(lines) = 1 THEN lines[1].toks
    ELSE lines[1].toks \o <<NL>> \o Text(Tail(lines))

StdLibOf(lang) ==
    CASE lang = "python" -> pythonStdLib
      [] lang = "nodejs" -> nodeStdLib
      [] lang = "go" -> goStdLib

\* ------------------------------------------------------------- actions
ScanRest == UNCHANGED <<containers, callVars, execVars, waitVars, histVars,
                        sent, ctxDone, comp, xfer, registry, put, poll, pair>>

\* a caller hands source text of one language to the parser of that language
ScanRequest ==
    /\ scan.phase = "idle"
    /\ \E lang \in Languages, n \in 0..MaxLines :
         \E lines \in [1..n -> LinesOf(lang)] :
            scan' = [phase |-> "request", lang |-> lang, lines |-> lines,
                     code |-> Text(lines)]
    /\ ScanRest

ScanPython ==
    /\ scan.phase = "request" /\ scan.lang = "python"
    /\ scan' = [lang |-> scan.lang, lines |-> scan.lines, code |-> scan.code,
                phase |-> "parsed", deps |-> ParsePythonImports(scan.code)]
    /\ ScanRest

ScanNode ==
    /\ scan.phase = "request" /\ scan.lang = "nodejs"
    /\ scan' = [lang |-> scan.lang, lines |-> scan.lines, code |-> scan.code,
                phase |-> "parsed", deps |-> ParseNodeImports(scan.code)]
    /\ ScanRest

ScanGo ==
    /\ scan.phase = "request" /\ scan.lang = "go"
    /\ scan' = [lang |-> scan.lang, lines |-> scan.lines, code |-> scan.code,
                phase |-> "parsed", deps |-> ParseGoImports(scan.code)]
    /\ ScanRest

\* the caller has taken the result
ScanReturn ==
    /\ scan.phase = "parsed"
    /\ scan' = NoScan
    /\ ScanRest

ScanNext == ScanRequest \/ ScanPython \/ ScanNode \/ ScanGo \/ ScanReturn

ScanSpec == Init /\ [][ScanNext]_vars

\* ------------------------------------------------------------ properties
Seq3(a, b, c) == <<[op |-> a, ok |-> TRUE], [op |-> b, ok |-> TRUE],
                   [op |-> c, ok |-> TRUE]>>

\* C1: in one sandbox_exec call the commands are started in list order, each
\* at most once, command k only after commands 1..k-1 all exited 0; when a
\* command exits non-zero the call has returned, its transcript reports that
\* exit code and holds no label or output of a later command.
C1_ExecShortCircuit ==
    kind = "sandbox_exec" =>
        /\ Len(started) <= args.n
        /\ \A i \in 1..Len(started) : started[i] = i
        /\ \A k \in 1..Len(started) : \A j \in 1..(k - 1) :
               j <= Len(exits) /\ exits[j] = 0
        /\ \A k \in 1..Len(exits) : exits[k] # 0 =>
               /\ pc = "done"
               /\ \E i \in 1..Len(result.transcript) :
                      result.transcript[i] = Item("exit", k, exits[k])
               /\ \A i \in 1..Len(result.transcript) : result.transcript[i].cmd <= k
               /\ \A i \in 1..Len(builder) : builder[i].cmd <= k

\* a two-command call whose first command exited non-zero has returned
C1_Witness ==
    /\ kind = "sandbox_exec" /\ pc = "done" /\ args.n = 2
    /\ Len(exits) = 1 /\ exits[1] # 0
    /\ Len(result.transcript) > 0

ExpectedEntry(c) ==
    [id |-> ShortId(inited[c].id),
     name |-> IF inited[c].name = "" THEN AutoName(c) ELSE UserName(inited[c].name),
     image |-> inited[c].image,
     status |-> "Up"]

ListReturns == kind = "sandbox_list" /\ pc = "list" /\ pc' = "done"
               /\ result'.status = "ok"

\* C3 as stated: after sandbox_initialize succeeded, every sandbox_list taken
\* before a stop of that container contains its entry.
C3_ListedUntilStop ==
    [][ListReturns =>
          \A c \in CIds : (inited[c].ok /\ c \notin stopped) =>
              ExpectedEntry(c) \in result'.list]_vars

\* C3: after sandbox_initialize succeeded, every sandbox_list taken while the
\* container is running contains an entry with the given name and image, a
\* running status and the first 12 characters of the returned id; after a
\* sandbox_stop of it succeeded no sandbox_list contains an entry with that id.
C3_ListedWhileRunning ==
    [][ListReturns =>
          \A c \in CIds : inited[c].ok =>
              /\ containers[c].st = "running" => ExpectedEntry(c) \in result'.list
              /\ c \in stopOK =>
                     \A e \in result'.list : e.id # ShortId(inited[c].id)]_vars

\* a sandbox_list returned the entry of an initialized container
C3_Witness ==
    /\ kind = "sandbox_list" /\ pc = "done" /\ result.status = "ok"
    /\ \E c \in CIds : inited[c].ok /\ ExpectedEntry(c) \in result.list

\* C4: sandbox_initialize issues pull, create, start in that order, each only
\* after the one before succeeded; its result carries an identifier only if
\* all three succeeded, and after a failed one it carries an error and no
\* identifier.
C4_InitializeAllOrNothing ==
    kind = "sandbox_initialize" =>
        LET names == <<"pull", "create", "start">>
        IN /\ Len(ops) <= 3
           /\ \A i \in 1..Len(ops) :
                  ops[i].op = names[i] /\ (i < Len(ops) => ops[i].ok)
           /\ result.id # NoStr =>
                  result.status = "ok" /\ ops = Seq3("pull", "create", "start")
           /\ (\E i \in 1..Len(ops) : ~ops[i].ok) =>
                  /\ pc = "done" /\ result.status = "error_text"
                  /\ result.id = NoStr

\* a sandbox_initialize whose start failed has returned
C4_Witness ==
    /\ kind = "sandbox_initialize" /\ pc = "done"
    /\ Len(ops) = 3 /\ ~ops[3].ok

\* the call in flight is a run_project that was not asked to run in background
ForegroundProject ==
    kind = "run_project" \/ (kind = "run_project_background" /\ ~args.bg)

\* C5: a foreground run_project returns output only once the container it
\* started has exited, and the output is everything the container wrote.
C5_ForegroundReturnsAfterExit ==
    [][(ForegroundProject /\ pc # "done" /\ pc' = "done" /\ result'.status = "ok") =>
          /\ containers'[cid].st = "exited"
          /\ result'.out = containers'[cid].out]_vars

C7_CleanedUpAfterRun ==
    (pc = "done" /\ (kind = "run_code" \/ ForegroundProject) /\ cid # NoC) =>
        ~Exists(cid)

\* C8: once waitDone is closed, run_code's loop sends no further tick.
C8_NoTickAfterCompletion ==
    [][(kind = "run_code" /\ pc = "loop" /\ waitDone) => sent' = sent \/ pc' = "done"]_vars

\* C9: after the context is cancelled during run_code's wait, the call is
\* never blocked (a step of the handler is enabled until it returns) and what
\* it returns is a tool error: no log result, no fault.
C9_CancelledWaitReturnsError ==
    (kind = "run_code" /\ cancelInWait) =>
        /\ pc \in {"loop", "logs", "done"}
        /\ pc = "loop" => ENABLED LoopCtxDone
        /\ pc = "logs" => ENABLED RunCodeLogs
        /\ pc = "done" => result.status = "error"

\* a run_code cancelled during its wait has returned
C9_Witness ==
    kind = "run_code" /\ cancelInWait /\ pc = "done" /\ result = CancelResult

\* C10: the progress values one run_code call sends never decrease.
C10_ProgressMonotonic ==
    kind = "run_code" =>
        \A i \in 1..(Len(sent) - 1) : sent[i] <= sent[i + 1]

\* --------------------------------------------- properties of composition
\* containerConfig.Cmd has been composed
Composed ==
    \/ comp.phase \in {"create", "running", "exited"}
    \/ comp.phase = "failed" /\ comp.error = "failed to create container"

\* one of the language's dependency files is in the project directory
ManifestPresent ==
    \E i \in 1..Len(ConfigOf(comp.flow, comp.lang).DependencyFiles) :
        ConfigOf(comp.flow, comp.lang).DependencyFiles[i] \in comp.dir

\* the command has a non-empty step before its last one
HasInstall(cmd) == Len(StepsOf(cmd)) > 1 /\ StepsOf(cmd)[1].words # <<>>
RunStep(cmd) == StepsOf(cmd)[Len(StepsOf(cmd))].words

\* C11: for a project directory holding one of the language's manifest files
\* the composed command has a non-empty install step before the run step; for
\* a directory holding none of them the command has a single step.
C11_InstallIffManifest ==
    (Composed /\ comp.flow \in ProjectFlows) =>
        /\ ManifestPresent => HasInstall(comp.Cmd) /\ comp.Cmd.sh
        /\ ~ManifestPresent => Len(StepsOf(comp.Cmd)) = 1

\* a command was composed for a directory with a manifest file
C11_Witness ==
    /\ Composed /\ comp.flow \in ProjectFlows /\ ManifestPresent
    /\ HasInstall(comp.Cmd)

\* C12: the last step of every command composed for a project is the caller's
\* entrypoint (for NodeJS with its first word replaced by a node command).
C12_RunStepPresent ==
    (Composed /\ comp.flow \in ProjectFlows /\ comp.lang \in Languages
       /\ comp.entry # <<>>) =>
        \/ RunStep(comp.Cmd) = comp.entry
        \/ /\ comp.lang = "nodejs"
           /\ \E pre \in {PlainNode, TypedFlags, SupportedLanguages("nodejs").RunCommand} :
                  RunStep(comp.Cmd) = pre \o Tail(comp.entry)

\* C13: in a container whose command has an install step, a step has run only
\* if every step before it exited 0; after a step exited non-zero the
\* container has exited and no later step has run.
C13_RunOnlyAfterInstall ==
    (comp.phase \in {"running", "exited"} /\ HasInstall(comp.Cmd)) =>
        /\ \A i \in 1..Len(comp.ran) :
               /\ comp.ran[i].step = comp.steps[i].words
               /\ \A j \in 1..(i - 1) : comp.ran[j].exit = 0
        /\ \A i \in 1..Len(comp.ran) : comp.ran[i].exit # 0 =>
               comp.phase = "exited" /\ i = Len(comp.ran)

\* the install step failed and the container exited without the run step
C13_Witness ==
    /\ comp.phase = "exited" /\ HasInstall(comp.Cmd)
    /\ comp.flow \in ProjectFlows
    /\ Len(comp.ran) = 1 /\ comp.ran[1].exit # 0

\* the caller's code reaches the program the container runs
CodeReaches ==
    \/ \E i \in 1..Len(comp.Cmd.words) : comp.Cmd.words[i] = Tok(comp.code.text)
    \/ \E f \in comp.mount :
           /\ f.content = ToValidUTF8(comp.code)
           /\ \E i \in 1..Len(RunStep(comp.Cmd)) : RunStep(comp.Cmd)[i] = f.name

\* C14: the container run_code starts for a supported language executes the
\* caller's code, given as an argument of the command or as a mounted file
\* that the run step names.
C14_CodeIsExecuted ==
    (comp.phase \in {"running", "exited"} /\ comp.flow = "run_code"
       /\ comp.lang \in Languages) => CodeReaches

\* C15: in the inline-code flows the composed command has an install step,
\* with a manifest generated from the dependencies in the mount, exactly when
\* the dependency set is non-empty.
C15_InstallIffDependencies ==
    (Composed /\ comp.flow \in InlineFlows /\ comp.lang \in Languages) =>
        /\ HasInstall(comp.Cmd) <=> comp.deps # {}
        /\ comp.deps # {} =>
               \E f \in comp.mount : "deps" \in DOMAIN f.content
                                     /\ f.content.deps = comp.deps

\* C16: run_code and run_project with an unregistered language fail with an
\* unsupported-language error and issue no engine operation.
C16_UnsupportedLanguageFails ==
    (comp.phase \notin {"idle", "lookup"}
       /\ comp.flow \in {"run_code", "run_project"} /\ comp.lang \notin Languages) =>
        /\ comp.ops = <<>>
        /\ comp.phase = "failed" /\ comp.error = "unsupported language"

\* C17: for a NodeJS project the run step starts with the node command of
\* the last entrypoint word's extension, and an entrypoint whose last word
\* has an unregistered or no extension is the run step unchanged.
C17_FlagsByExtension ==
    (Composed /\ comp.flow \in ProjectFlows /\ comp.lang = "nodejs"
       /\ comp.entry # <<>>) =>
        LET ext == Ext(comp.entry[Len(comp.entry)])
        IN RunStep(comp.Cmd) = IF ext \in RegisteredExts
                               THEN FileExtensions(ext) \o Tail(comp.entry)
                               ELSE comp.entry

\* ------------------------------------------- properties of file transfer
\* the place copy_project promises for the i-th entry of the source directory
PlaceOf(i) == xfer.destDir \o <<Base(LocalSrcDir)>> \o xfer.tree[i].rel

\* C18: a copy_project call on a running container that the engine serves
\* ends successfully with every regular file of the directory at
\* P/base(D)/rel with the same bytes and permission bits, and a
\* copy_file_from_sandbox of such a path that succeeds leaves these bytes and
\* permission bits in the local destination file.
C18_ProjectRoundTrip ==
    /\ (xfer.phase = "done" /\ xfer.op = "copy_project" /\ xfer.state = "running"
          /\ xfer.srcKind = "dir" /\ xfer.msg # "Error copying to container") =>
           /\ xfer.status = "ok"
           /\ \A i \in 1..Len(xfer.tree) : xfer.tree[i].type = "reg" =>
                  /\ Lookup(xfer.fs, PlaceOf(i)).type = "reg"
                  /\ Lookup(xfer.fs, PlaceOf(i)).bytes = xfer.tree[i].bytes
                  /\ Lookup(xfer.fs, PlaceOf(i)).mode = Perm(xfer.tree[i].mode)
    /\ (xfer.phase = "done" /\ xfer.op = "copy_file_from_sandbox"
          /\ xfer.status = "ok" /\ xfer.conform) =>
           \A i \in 1..Len(xfer.tree) :
               (xfer.tree[i].type = "reg" /\ xfer.srcPath = PlaceOf(i)) =>
                   xfer.dest = RegFile(xfer.tree[i].bytes, Perm(xfer.tree[i].mode))

\* C19: copy_file_from_sandbox succeeds only for an archive of exactly one
\* entry that is a regular file.
C19_ExactlyOneRegularEntry ==
    (xfer.phase = "done" /\ xfer.op = "copy_file_from_sandbox"
       /\ xfer.status = "ok") =>
        Len(xfer.archive) = 1 /\ xfer.archive[1].type = "reg"

\* C20: when the engine reports the source as a directory, or the first entry
\* of the archive is not a regular file, copy_file_from_sandbox returns an
\* error without going on to create the destination file, which is as it was
\* before the call.
C20_RejectLeavesDestination ==
    (xfer.phase \in {"create", "write", "done"}
       /\ xfer.op = "copy_file_from_sandbox"
       /\ (xfer.stat.isDir
             \/ (Len(xfer.archive) > 0 /\ xfer.archive[1].type # "reg"))) =>
        /\ xfer.phase = "done" /\ xfer.status = "error_text"
        /\ xfer.dest = xfer.before

\* a directory source was rejected with an existing destination file untouched
C20_Witness ==
    /\ xfer.phase = "done" /\ xfer.op = "copy_file_from_sandbox"
    /\ xfer.stat.isDir /\ Len(xfer.archive) > 1
    /\ xfer.status = "error_text"
    /\ xfer.before = RegFile("local", 384) /\ xfer.dest = xfer.before

\* -------------------------------------------------- properties of output
\* C21: a read of the logs of a container created with a tty, which the
\* engine serves, returns the output the container has written, unchanged.
C21_TtyLogsUnchanged ==
    [][(kind = "logs" /\ pc = "read" /\ pc' = "done"
          /\ ops' = <<[op |-> "logs", ok |-> TRUE]>>) =>
         \A c \in Resolve(args.target) : containers[c].tty =>
             result'.status = "ok" /\ result'.out = containers[c].out]_vars

\* C22: once the container of run_code has exited the call asks the engine
\* for both output streams, and with the logs served it returns the
\* container's whole output without an error.
C22_RunCodeReturnsOutput ==
    /\ (kind = "run_code" /\ pc = "logs") => RunCodeLogsOptions = BothStreams
    /\ (kind = "run_code" /\ pc = "done" /\ Len(ops) = 4 /\ ops[4].ok) =>
           result.status = "ok" /\ result.out = containers[cid].out

\* ------------------------------------------------ properties of progress
ProgressCalls == {"run_code", "run_project"}

\* C27: a run_code or run_project request without metadata sends no progress
\* notification, returns no error for the missing token and goes on to the
\* engine operations.
C27_NoTokenSkipsSilently ==
    (kind \in ProgressCalls /\ pc = "done" /\ ~args.meta) =>
        /\ sent = <<>>
        /\ result.status # "panic"
        /\ Len(ops) >= 1

\* C28: a progress notification that cannot be sent does not end run_code or
\* run_project: the call that returned has issued its pull and does not
\* return the send failure.
C28_SendFailureNeverAborts ==
    (kind \in ProgressCalls /\ pc = "done" /\ args.meta) =>
        /\ Len(ops) >= 1
        /\ result.msg \notin {"Could not send progress to client",
                              "failed to send progress notification"}

\* ------------------------------------------------ properties of teardown
\* C30: sandbox_stop issues the engine stop and then the engine remove, the
\* remove only after a stop that succeeded; it reports success exactly when
\* both succeeded, and the successful call leaves the container, running or
\* exited when the call began, removed.
C30_StopThenRemove ==
    [][kind = "sandbox_stop" =>
         /\ Len(ops) <= 2
         /\ Len(ops) >= 1 => ops[1].op = "stop"
         /\ Len(ops) = 2 => ops[1].ok /\ ops[2].op = "remove"
         /\ pc = "done" => (result.status = "ok" <=> (Len(ops) = 2 /\ ops[2].ok))
         /\ (pc = "remove" /\ pc' = "done" /\ result'.status = "ok") =>
                \E c \in Resolve(args.target) :
                    /\ c \in stopped
                    /\ containers[c].st # "running"
                    /\ containers'[c].st = "removed"]_vars

\* a sandbox_stop returned success and its container is removed
C30_Witness ==
    /\ kind = "sandbox_stop" /\ pc = "done" /\ result.status = "ok"
    /\ ops = <<[op |-> "stop", ok |-> TRUE], [op |-> "remove", ok |-> TRUE]>>
    /\ \E c \in stopOK : containers[c].st = "removed"

\* ----------------------------------------------- properties of detection
\* the modules the lines of the scanned text import
Imported == UNION {scan.lines[k].mods : k \in 1..Len(scan.lines)}

\* the package a language installs for a module
InstallableUnit(lang, mod) ==
    CASE lang = "python" -> pythonPkgMap(mod)
      [] lang = "nodejs" -> getBasePackage(mod)
      [] lang = "go" -> mod

\* C23: for python, nodejs and go the result of a detection holds no package
\* of the language's standard-library exclusion set, and a text whose imports
\* are all standard-library modules yields the empty result.
C23_StdLibOnlyYieldsEmpty ==
    scan.phase = "parsed" =>
        /\ scan.deps \cap StdLibOf(scan.lang) = {}
        /\ Imported \subseteq StdLibOf(scan.lang) => scan.deps = {}

\* C24: for python, nodejs and go every entry of the result comes from an
\* import of the text: import-like text in a comment or in a string literal
\* contributes nothing, wherever it stands on its line.
C24_CommentsAndStringsIgnored ==
    scan.phase = "parsed" =>
        scan.deps \subseteq {InstallableUnit(scan.lang, mod) : mod \in Imported}

ScopedPaths == {mod \in Imported : mod[1] = "@" /\ Len(Split(mod)) >= 2}

\* C25 as stated: an organization-scoped path @org/pkg or @org/pkg/sub/...
\* is reduced to org/pkg, and an unscoped path pkg/sub/... to pkg.
C25_ScopedYieldsOrgPkg ==
    (scan.phase = "parsed" /\ scan.lang = "nodejs") =>
        \A mod \in Imported :
            IF mod \in ScopedPaths
            THEN Tail(Split(mod)[1]) \o <<Slash>> \o Split(mod)[2] \in scan.deps
            ELSE Split(mod)[1] \in scan.deps \cup nodeStdLib

\* C25: an organization-scoped path @org/pkg or @org/pkg/sub/... is reduced
\* to the two-segment unit @org/pkg, the scope marker kept, never to the
\* organization alone, and an unscoped path pkg/sub/... to its first segment.
C25_ScopedKeepsTwoSegments ==
    (scan.phase = "parsed" /\ scan.lang = "nodejs") =>
        \A mod \in Imported :
            IF mod \in ScopedPaths
            THEN /\ Split(mod)[1] \o <<Slash>> \o Split(mod)[2] \in scan.deps
                 /\ Split(mod)[1] \notin scan.deps
                 /\ Tail(Split(mod)[1]) \notin scan.deps
                 /\ Len(Split(mod)) > 2 => mod \notin scan.deps
            ELSE /\ Split(mod)[1] \in scan.deps \cup nodeStdLib
                 /\ Len(Split(mod)) > 1 => mod \notin scan.deps

C25_Witness ==
    /\ scan.phase = "parsed" /\ scan.lang = "nodejs"
    /\ {ScopedPkg, ScopedSub, PlainSub} \subseteq Imported
    /\ scan.deps = {<<"@", "org", Slash, "pkg">>, W("lodash")}

\* -------------------------------------------------- properties of mounts
\* C26: the project directory is mounted read-only into the environment that
\* run_project starts: whatever the commands of the environment do, the files
\* of the host project directory stay as the request found them.
C26_ProjectDirReadOnly ==
    (comp.phase \in {"create", "running", "exited"} /\ comp.flow \in ProjectFlows) =>
        /\ \A b \in 1..Len(comp.Binds) : ReadOnly(comp.Binds[b])
        /\ comp.host = comp.dir

\* ------------------------------------------------- properties of retries
OncePerCall == {"pull", "create", "start", "wait", "logs", "stop", "remove"}

\* in a log of engine operations none of OncePerCall occurs twice and only
\* the last operation may have failed
NeverRetried(log) ==
    /\ \A i, j \in 1..Len(log) :
           (i # j /\ log[i].op \in OncePerCall) => log[i].op # log[j].op
    /\ \A i \in 1..(Len(log) - 1) : log[i].ok

FailedLast(log) == Len(log) > 0 /\ ~log[Len(log)].ok

\* the tools of the engine specification: no operation is issued twice, none
\* after a failed one, and a call whose last operation failed returns a failure
ToolsNeverRetry ==
    /\ NeverRetried(ops)
    /\ (pc = "done" /\ FailedLast(ops)) =>
           result.status \in {"error", "error_text", "fault"}

\* C29: no engine operation is retried: within one tool call each of pull,
\* create, start, wait, logs, stop and remove is issued at most once, and
\* after the first engine operation that fails the call issues no further
\* engine operation and returns the failure.
C29_FailureEndsTheCall ==
    /\ ToolsNeverRetry
    /\ xfer.phase # "idle" =>
          /\ NeverRetried(xfer.ops)
          /\ (xfer.phase = "done" /\ FailedLast(xfer.ops)) => xfer.status = "error_text"

\* ------------------------------------------------ properties of the list
Running == {c \in CIds : containers[c].st = "running"}

\* C39: sandbox_list returns exactly the environments that are running at the
\* time of the call: an environment that has exited and is not removed is not
\* in the list, and every running environment is in it exactly once.
C39_ListIsTheRunningSet ==
    [][ListReturns =>
          /\ result'.list = {SandboxInfo(c) : c \in Running}
          /\ Cardinality(result'.list) = Cardinality(Running)
          /\ \A c \in CIds : containers[c].st # "running" =>
                 \A e \in result'.list : e.id # ShortId(FullId(c))]_vars

\* a sandbox_list returned an empty list while an exited container was there
C39_Witness ==
    /\ kind = "sandbox_list" /\ pc = "done" /\ result.status = "ok"
    /\ result.list = {}
    /\ \E c \in CIds : containers[c].st = "exited"

\* ------------------------------------------------ properties of failures
CreatingCalls == {"sandbox_initialize", "run_code", "run_project",
                  "run_project_background"}

\* C34: when sandbox_initialize, run_code or run_project returns an error, no
\* container that the call created is left in the engine unless the result
\* carries its identifier; a create that succeeded followed by a start that
\* failed leaves nothing unreported behind.
C34_NoUnreportedEnvironment ==
    (kind \in CreatingCalls /\ pc = "done" /\ result.status # "ok" /\ cid # NoC) =>
        \/ ~Exists(cid)
        \/ result.id = FullId(cid)

\* ---------------------------------------------- properties of the waiter
\* the step of the main loop that reads waitErr
ReadsWaitErr ==
    /\ kind = "run_code" /\ pc = "loop"
    /\ \/ pc' = "logs"
       \/ pc' = "done" /\ result'.msg = "error waiting for container"

\* C36: in runInDocker the waiter goroutine closes waitDone exactly once and
\* ends once the container has exited, the wait has failed or the request is
\* cancelled, and the main loop reads waitErr only after the goroutine wrote
\* it: the read never happens while the goroutine may still write.
C36_WaiterClosesOnceThenIsRead ==
    /\ [](gpc = "closing" => ~waitDone)
    /\ [](waitDone => gpc = "done")
    /\ [][(waitDone' # waitDone) =>
             \/ ~waitDone /\ gpc = "closing" /\ gpc' = "done"
             \/ gpc' = "none"]_vars
    /\ [][ReadsWaitErr => (gpc = "done" /\ (pc' = "logs" <=> ~waitErr))]_vars
    /\ (WaitAnswered ~> gpc = "done")

\* the main loop returned the error that the goroutine stored
C36_Witness ==
    /\ kind = "run_code" /\ pc = "done" /\ gpc = "done" /\ waitDone /\ waitErr
    /\ result.msg = "error waiting for container"

\* ------------------------------------- properties of the temporary directory
\* runInDocker returns after os.MkdirTemp: for Go and NodeJS code the
\* deferred os.RemoveAll(tmpDir) runs at this step
RemovesTmpDir ==
    /\ kind = "run_code" /\ pc \in {"create", "start", "loop", "logs"}
    /\ pc' = "done"

\* C35: the temporary directory with the Go or NodeJS source of a run_code
\* call is deleted only after the container that mounts it has stopped
\* running, on every return of runInDocker.
C35_TmpDirOutlivesContainer ==
    [][(RemovesTmpDir /\ cid # NoC) => containers'[cid].st # "running"]_vars

\* ------------------------------------------- properties of failed commands
\* C37: when the engine cannot run the k-th command of a sandbox_exec call,
\* the call returns at once with the error text alone: no later command is
\* started, and the labels and output of commands 1..k-1, which did run, are
\* not in the result.
C37_EngineFailureDropsTranscript ==
    (kind = "sandbox_exec" /\ Len(ops) > 0 /\ ~ops[Len(ops)].ok) =>
        /\ pc = "done"
        /\ result = ErrorText("Error executing command")
        /\ result.transcript = <<>>
        /\ \A k \in 1..(Len(ops) - 1) :
               /\ ops[k].ok /\ exits[k] = 0
               /\ \E i \in 1..Len(builder) : builder[i] = Item("label", k, 0)
        /\ Len(exits) = Len(ops) - 1
        /\ \A i \in 1..Len(started) : started[i] <= Len(ops)

\* the second command of a call could not be run after the first one ran
\* and wrote output
C37_Witness ==
    /\ kind = "sandbox_exec" /\ pc = "done" /\ args.n = 2
    /\ Len(ops) = 2 /\ ops[1].ok /\ ~ops[2].ok
    /\ exits = <<0>>
    /\ Item("stdout", 1, 0) \in {builder[i] : i \in 1..Len(builder)}
    /\ result.status = "error_text" /\ result.transcript = <<>>

\* --------------------------------------------- properties of the archive
\* the archive createTarArchive made is at hand
Archived ==
    /\ xfer.phase \in {"copy", "extract", "done"}
    /\ xfer.op = "copy_project" /\ xfer.srcKind = "dir"

IsBelow(name, dirName) ==
    Len(name) > Len(dirName) /\ SubSeq(name, 1, Len(dirName)) = dirName

\* C32: createTarArchive(D) emits exactly one entry named base(D)/rel for
\* every file and directory at D/rel below D and none for D itself; an entry
\* of a directory carries no payload, the payload of a regular file is the
\* bytes of the file, and the entry of a directory precedes the entries of
\* everything below it.
C32_ArchiveMirrorsTree ==
    Archived =>
        LET arch == xfer.archive
            base == <<Base(LocalSrcDir)>>
        IN /\ \A k \in 1..Len(xfer.tree) : xfer.tree[k].rel # <<>> =>
                  /\ Cardinality({i \in 1..Len(arch) :
                                     arch[i].name = base \o xfer.tree[k].rel}) = 1
                  /\ \A i \in 1..Len(arch) :
                         arch[i].name = base \o xfer.tree[k].rel =>
                             /\ arch[i].type = xfer.tree[k].type
                             /\ arch[i].type = "reg" => arch[i].bytes = xfer.tree[k].bytes
           /\ \A i \in 1..Len(arch) :
                  /\ arch[i].name # base
                  /\ \E k \in 1..Len(xfer.tree) : arch[i].name = base \o xfer.tree[k].rel
                  /\ arch[i].type = "dir" => arch[i].bytes = ""
                  /\ \A j \in 1..Len(arch) :
                         (arch[i].type = "dir" /\ IsBelow(arch[j].name, arch[i].name))
                             => i < j

\* the archive of a directory that holds a file and a subdirectory with a file
C32_Witness ==
    /\ Archived /\ Len(xfer.tree) = 4 /\ Len(xfer.archive) = 3
    /\ xfer.archive[2].name = <<"proj", "sub">> /\ xfer.archive[2].bytes = ""
    /\ xfer.archive[3].name = <<"proj", "sub", "b.txt">>
    /\ xfer.archive[3].bytes = "nested"

\* -------------------------------------------- properties of the registry
\* the profile a reader of the registry gets
Profile(lang) ==
    [Image |-> StartUp.SupportedLanguages[lang].Image,
     DependencyFiles |-> SliceValue(StartUp.SupportedLanguages[lang].DependencyFiles),
     RunCommand |-> SliceValue(Overlaid(lang, StartUp.SupportedLanguages[lang].RunCommand,
                                        registry))]

\* C33: no sequence of calls changes the language registry: every profile
\* (image, manifest list, run command, the node commands by extension) has
\* its start-up value after any call, NodeJS command rewriting included,
\* which appends the entrypoint's tokens to a slice taken from the registry;
\* nothing is stored into the backing arrays of the registry's slices either.
C33_RegistryNeverChanges ==
    /\ \A lang \in Languages : Profile(lang) = SupportedLanguages(lang)
    /\ \A lang \in Languages :
          /\ StartUp.supportedLanguages[lang].Image = supportedLanguages(lang).Image
          /\ SliceValue(StartUp.supportedLanguages[lang].DependencyFiles)
                = supportedLanguages(lang).DependencyFiles
    /\ \A ext \in RegisteredExts :
          SliceValue(Overlaid(ext, StartUp.FileExtensions[ext], registry))
            = FileExtensions(ext)
    /\ registry = {}

\* a NodeJS project was composed with the registry's run command followed by
\* the rest of the entrypoint
C33_Witness ==
    /\ comp.phase = "create" /\ comp.flow = "run_project_010" /\ comp.lang = "nodejs"
    /\ Len(comp.entry) = 2 /\ Ext(comp.entry[2]) = ".ts"
    /\ ~comp.Cmd.sh
    /\ comp.Cmd.words = SupportedLanguages("nodejs").RunCommand \o Tail(comp.entry)

\* ------------------------------- properties of the destination directory
\* C31: in copy_file and copy_project the mkdir -p of the destination
\* directory has completed successfully inside the environment before the
\* archive is placed there; if the directory creation command fails, the
\* archive is not placed and the call reports an error.
C31_MkdirDoneBeforePlacing ==
    put.phase # "idle" =>
        /\ put.placed => put.mkAtPlace = "exited0"
        /\ (put.phase = "done" /\ put.mk = "exited1") =>
               (~put.placed /\ put.status # "ok")

\* --------------------------------------- properties of the polling loops
\* C38: the polling loops of executeCommandAndWait and writeFileToContainer
\* return in every execution in which the exec'd command stops running or
\* an inspect call fails (as it does once the request is cancelled), and
\* they return an error exactly when the inspect failed or the exit code is
\* non-zero.
C38_PollingLoopReturns ==
    /\ [](poll.phase = "done" /\ poll.looped =>
            ((poll.err # "") <=> (poll.inspectFailed \/ poll.exitCode # 0)))
    /\ [](poll.phase # "idle" /\ poll.inspectFailed => poll.phase = "done")
    /\ (PollAnswered ~> poll.phase = "done")

\* the loop slept while the command ran, then read a non-zero exit code
C38_Witness ==
    /\ poll.phase = "done" /\ poll.looped /\ poll.polls > 0
    /\ ~poll.inspectFailed /\ poll.exitCode = 2
    /\ poll.err = "command exited with code"

\* ----------------------------------------- properties of concurrent copies
\* the files of call i's source directory are at its destination
OwnTreeAt(i) ==
    \A k \in 1..Len(TreeOf(i)) : TreeOf(i)[k].type = "reg" =>
        LET f == Lookup(pair.fs, pair.call[i].destDir \o <<Base(SrcOf(i))>>
                                   \o TreeOf(i)[k].rel)
        IN f.type = "reg" /\ f.bytes = TreeOf(i)[k].bytes

\* C40: two concurrent copy_project calls into one environment from source
\* directories of the same base name do not interfere although both use the
\* staging path /tmp/project_<base>.tar: under every interleaving each call
\* ends successfully with its own complete tree at its own destination, and
\* neither call's cleanup makes the other fail.
C40_ConcurrentCopiesDoNotInterfere ==
    pair.phase = "calls" =>
        \A i \in Callers : pair.call[i].at = "done" =>
            /\ pair.call[i].status = "ok"
            /\ OwnTreeAt(i)

====
